---- MODULE Spec2Model ----
(***************************************************************************)
(* CANopenNode Emergency object (301/CO_Emergency.c) and the Object        *)
(* Dictionary interface it sits on, as a state machine.                    *)
(*                                                                         *)
(* Representation.  A uint32_t is a pair <<hi, lo>> of 16-bit halves, so   *)
(* that 32-bit arithmetic keeps its width.  The target is little-endian:   *)
(* memcpy of a uint32_t exposes the bytes lo%256, lo/256, hi%256, hi/256   *)
(* and CO_SWAP_16 / CO_SWAP_32 leave the value as it is.  The error status *)
(* bitmap is the set of the numbers of the bits that are 1.  The driver's  *)
(* CANerrorStatus word is the set of the names of its bits that are 1.     *)
(***************************************************************************)
EXTENDS Integers, Sequences, FiniteSets, TLC

VARIABLES
    CAP,        \* CO_CONFIG_EM_BUFFER_SIZE of the build; em->fifo has CAP+1 slots
    em,         \* the CO_EM_t object, the OD words it mirrors, its CAN tx buffer
    task,       \* the CO_error call the task is in the middle of, if any
    last,       \* observation of the most recent call: its arguments and outputs
    pending,    \* observation: entries accepted by CO_error and not yet popped
    fill,       \* observation: edges reported so far, until the first pop (then -1)
    hist,       \* observation: per-bit counters of the CO_error calls so far
    gap,        \* observation: time passed to process since its last transmit
    phase,      \* "load" while errors may be reported, "drain0" or "drain1" afterwards
    od,         \* Object Dictionary side: the OD memory, the list of entries, the caller's OD_IO_t
    xfer        \* observation of the transfer made through the OD_IO_t since OD_getSub

vars == <<CAP, em, task, last, pending, fill, hist, gap, phase, od, xfer>>

(***************************************************************************)
(* Bounds of the model.                                                    *)
(***************************************************************************)
MaxReports == 5
MaxFrameReports == 2
MaxGap == 400
MaxRaceReports == 3
MaxLiveReports == 3
MaxHistReports == 3
MaxCatalog == 5

(***************************************************************************)
(* Program constants.                                                      *)
(***************************************************************************)
CO_CONFIG_EM_ERR_STATUS_BITS_COUNT == 80
CO_EM_CAN_BUS_WARNING == 1
CO_EM_CAN_RX_BUS_PASSIVE == 6
CO_EM_CAN_TX_BUS_PASSIVE == 7
CO_EM_CAN_TX_BUS_OFF == 18
CO_EM_CAN_RXB_OVERFLOW == 19
CO_EM_CAN_TX_OVERFLOW == 20
CO_EM_TPDO_OUTSIDE_WINDOW == 21
CO_EM_EMERGENCY_BUFFER_FULL == 32
CO_EM_WRONG_ERROR_REPORT == 40
CO_EMC_NO_ERROR == 0
CO_EMC_GENERIC == 4096
CO_EMC_SOFTWARE_INTERNAL == 24832
CO_EMC_COMMUNICATION == 33024
CO_EMC_CAN_OVERRUN == 33040
CO_EMC_CAN_PASSIVE == 33056
CO_EMC_BUS_OFF_RECOVERED == 33088
CO_ERR_REG_GENERIC_ERR == 1
CO_ERR_REG_COMMUNICATION == 16
CO_ERR_REG_MANUFACTURER == 128
CO_CAN_ID_EMERGENCY == 128

(***************************************************************************)
(* 32-bit words.                                                           *)
(***************************************************************************)
U32(hi, lo) == <<hi, lo>>

U32zero == U32(0, 0)

Add32(a, b) ==
    LET s == a[2] + b[2]
    IN  U32((a[1] + b[1] + (s \div 65536)) % 65536, s % 65536)

Lt32(a, b) == a[1] < b[1] \/ (a[1] = b[1] /\ a[2] < b[2])

RECURSIVE BitOr(_, _)
BitOr(a, b) ==
    IF a = 0 THEN b
    ELSE IF b = 0 THEN a
    ELSE (IF a % 2 = 1 \/ b % 2 = 1 THEN 1 ELSE 0)
         + 2 * BitOr(a \div 2, b \div 2)

\* the bytes of a uint32_t as a big-endian target would lay them out
Bytes32_BigEndian(w) == <<w[1] \div 256, w[1] % 256, w[2] \div 256, w[2] % 256>>

\* the bytes memcpy sees of a uint32_t
Bytes32(w) == <<w[2] % 256, w[2] \div 256, w[1] % 256, w[1] \div 256>>

CO_SWAP_16(x) == x

CO_SWAP_32(w) == w

(***************************************************************************)
(* CO_error()                                                              *)
(***************************************************************************)
\* ErrorBitIndex without the redirection of lines 695-697
ErrorBitIndex_NoRedirect(errorBit) == errorBit

\* lines 691-700: index and bitmask of the bit, redirected when out of range
ErrorBitIndex(errorBit) ==
    IF (errorBit \div 8) >= (CO_CONFIG_EM_ERR_STATUS_BITS_COUNT \div 8)
    THEN CO_EM_WRONG_ERROR_REPORT
    ELSE errorBit

\* CO_error_check without the test of lines 713-715: a clear of a bit that is
\* already clear is not recognised as a duplicate
CO_error_check_NoClearTest(e, setError, errorBit, errorCode, infoCode) ==
    LET wrong  == (errorBit \div 8) >= (CO_CONFIG_EM_ERR_STATUS_BITS_COUNT \div 8)
        bit    == IF wrong THEN CO_EM_WRONG_ERROR_REPORT ELSE errorBit
        code1  == IF wrong THEN CO_EMC_SOFTWARE_INTERNAL ELSE errorCode
        info1  == IF wrong THEN U32(0, errorBit) ELSE infoCode
        masked == bit \in e.errorStatusBits
        code2  == IF setError THEN code1 ELSE CO_EMC_NO_ERROR
    IN  [ret             |-> (setError /\ masked),
         setError        |-> setError,
         bit             |-> bit,
         errMsg          |-> U32(errorBit * 256, CO_SWAP_16(code2)),
         infoCodeSwapped |-> CO_SWAP_32(info1)]

\* lines 691-725: everything before CO_LOCK_EMCY().  "ret" tells that the
\* function returned because the bit already has the requested value.
CO_error_check(e, setError, errorBit, errorCode, infoCode) ==
    LET wrong  == (errorBit \div 8) >= (CO_CONFIG_EM_ERR_STATUS_BITS_COUNT \div 8)
        bit    == ErrorBitIndex(errorBit)
        code1  == IF wrong THEN CO_EMC_SOFTWARE_INTERNAL ELSE errorCode
        info1  == IF wrong THEN U32(0, errorBit) ELSE infoCode
        masked == bit \in e.errorStatusBits
        code2  == IF setError THEN code1 ELSE CO_EMC_NO_ERROR
    IN  [ret             |-> (setError = masked),
         setError        |-> setError,
         bit             |-> bit,
         errMsg          |-> U32(errorBit * 256, CO_SWAP_16(code2)),
         infoCodeSwapped |-> CO_SWAP_32(info1)]

\* lines 733-737
fifoWrPtrNext(fifoWrPtr) ==
    IF fifoWrPtr + 1 >= CAP + 1 THEN 0 ELSE fifoWrPtr + 1

\* CO_error_locked without the test of line 739: a full FIFO is written too
CO_error_locked_NoFullTest(e, l) ==
    LET bits == IF l.setError THEN e.errorStatusBits \cup {l.bit}
                              ELSE e.errorStatusBits \ {l.bit}
        wr   == e.fifoWrPtr
    IN  [e EXCEPT !.errorStatusBits = bits,
                  !.fifo[wr] = <<l.errMsg, l.infoCodeSwapped>>,
                  !.fifoWrPtr = fifoWrPtrNext(wr),
                  !.fifoCount = IF @ < CAP THEN @ + 1 ELSE @]

\* CO_error_locked with line 743 moved before the test of line 739: the slot
\* is written even when the entry is dropped
CO_error_locked_WritesWhenFull(e, l) ==
    LET bits == IF l.setError THEN e.errorStatusBits \cup {l.bit}
                              ELSE e.errorStatusBits \ {l.bit}
        wr   == e.fifoWrPtr
        nxt  == fifoWrPtrNext(wr)
        e1   == [e EXCEPT !.errorStatusBits = bits,
                          !.fifo[wr] = <<l.errMsg, l.infoCodeSwapped>>]
    IN  IF nxt = e.fifoPpPtr
        THEN [e1 EXCEPT !.fifoOverflow = 1]
        ELSE [e1 EXCEPT !.fifoWrPtr = nxt,
                        !.fifoCount = IF @ < CAP THEN @ + 1 ELSE @]

\* CO_error_locked with lines 729-730 moved into the else branch of line 742:
\* the bit is not changed when the entry is dropped
CO_error_locked_BitOnlyIfRoom(e, l) ==
    LET bits == IF l.setError THEN e.errorStatusBits \cup {l.bit}
                              ELSE e.errorStatusBits \ {l.bit}
        wr   == e.fifoWrPtr
        nxt  == fifoWrPtrNext(wr)
    IN  IF nxt = e.fifoPpPtr
        THEN [e EXCEPT !.fifoOverflow = 1]
        ELSE [e EXCEPT !.errorStatusBits = bits,
                       !.fifo[wr] = <<l.errMsg, l.infoCodeSwapped>>,
                       !.fifoWrPtr = nxt,
                       !.fifoCount = IF @ < CAP THEN @ + 1 ELSE @]

\* CO_error_locked without the test of line 748: fifoCount counts every entry
CO_error_locked_CountAll(e, l) ==
    LET bits == IF l.setError THEN e.errorStatusBits \cup {l.bit}
                              ELSE e.errorStatusBits \ {l.bit}
        wr   == e.fifoWrPtr
        nxt  == fifoWrPtrNext(wr)
    IN  IF nxt = e.fifoPpPtr
        THEN [e EXCEPT !.errorStatusBits = bits, !.fifoOverflow = 1]
        ELSE [e EXCEPT !.errorStatusBits = bits,
                       !.fifo[wr] = <<l.errMsg, l.infoCodeSwapped>>,
                       !.fifoWrPtr = nxt,
                       !.fifoCount = @ + 1]

\* lines 728-752: the section between CO_LOCK_EMCY() and CO_UNLOCK_EMCY()
CO_error_locked(e, l) ==
    LET bits == IF l.setError THEN e.errorStatusBits \cup {l.bit}
                              ELSE e.errorStatusBits \ {l.bit}
        wr   == e.fifoWrPtr
        nxt  == fifoWrPtrNext(wr)
    IN  IF nxt = e.fifoPpPtr
        THEN [e EXCEPT !.errorStatusBits = bits, !.fifoOverflow = 1]
        ELSE [e EXCEPT !.errorStatusBits = bits,
                       !.fifo[wr] = <<l.errMsg, l.infoCodeSwapped>>,
                       !.fifoWrPtr = nxt,
                       !.fifoCount = IF @ < CAP THEN @ + 1 ELSE @]

CO_error(e, setError, errorBit, errorCode, infoCode) ==
    LET l == CO_error_check(e, setError, errorBit, errorCode, infoCode)
    IN  IF l.ret THEN e ELSE CO_error_locked(e, l)

CO_errorReport(e, errorBit, errorCode, infoCode) ==
    CO_error(e, TRUE, errorBit, errorCode, infoCode)

CO_errorReset(e, errorBit, infoCode) ==
    CO_error(e, FALSE, errorBit, CO_EMC_NO_ERROR, infoCode)

(***************************************************************************)
(* CO_EM_process()                                                         *)
(***************************************************************************)
\* MonitorOne that raises the error whatever the flag has become
MonitorOne_RaiseOnly(e, CANerrSt, changed, flags, errorBit, errorCode) ==
    IF changed \cap flags # {}
    THEN CO_error(e, TRUE, errorBit, errorCode, U32zero)
    ELSE e

\* lines 546-579: one CO_error call per monitored condition that changed
MonitorOne(e, CANerrSt, changed, flags, errorBit, errorCode) ==
    IF changed \cap flags # {}
    THEN CO_error(e, CANerrSt \cap flags # {}, errorBit, errorCode, U32zero)
    ELSE e

CANerrMonitor(e, CANerrSt) ==
    IF CANerrSt = e.CANerrorStatusOld THEN e
    ELSE
    LET old == e.CANerrorStatusOld
        ch  == (CANerrSt \ old) \cup (old \ CANerrSt)
        e0  == [e EXCEPT !.CANerrorStatusOld = CANerrSt]
        e1  == MonitorOne(e0, CANerrSt, ch, {"ERRTX_WARNING", "ERRRX_WARNING"},
                          CO_EM_CAN_BUS_WARNING, CO_EMC_NO_ERROR)
        e2  == MonitorOne(e1, CANerrSt, ch, {"ERRTX_PASSIVE"},
                          CO_EM_CAN_TX_BUS_PASSIVE, CO_EMC_CAN_PASSIVE)
        e3  == MonitorOne(e2, CANerrSt, ch, {"ERRTX_BUS_OFF"},
                          CO_EM_CAN_TX_BUS_OFF, CO_EMC_BUS_OFF_RECOVERED)
        e4  == MonitorOne(e3, CANerrSt, ch, {"ERRTX_OVERFLOW"},
                          CO_EM_CAN_TX_OVERFLOW, CO_EMC_CAN_OVERRUN)
        e5  == MonitorOne(e4, CANerrSt, ch, {"ERRTX_PDO_LATE"},
                          CO_EM_TPDO_OUTSIDE_WINDOW, CO_EMC_COMMUNICATION)
        e6  == MonitorOne(e5, CANerrSt, ch, {"ERRRX_PASSIVE"},
                          CO_EM_CAN_RX_BUS_PASSIVE, CO_EMC_CAN_PASSIVE)
    IN  MonitorOne(e6, CANerrSt, ch, {"ERRRX_OVERFLOW"},
                   CO_EM_CAN_RXB_OVERFLOW, CO_EM_CAN_RXB_OVERFLOW)

\* the monitored conditions of lines 551-578 in the order of the code: the
\* flags of CANerrorStatus, the error status bit and the error code
MonitoredConditions ==
    << [flags |-> {"ERRTX_WARNING", "ERRRX_WARNING"},
        errorBit |-> CO_EM_CAN_BUS_WARNING, errorCode |-> CO_EMC_NO_ERROR],
       [flags |-> {"ERRTX_PASSIVE"},
        errorBit |-> CO_EM_CAN_TX_BUS_PASSIVE, errorCode |-> CO_EMC_CAN_PASSIVE],
       [flags |-> {"ERRTX_BUS_OFF"},
        errorBit |-> CO_EM_CAN_TX_BUS_OFF, errorCode |-> CO_EMC_BUS_OFF_RECOVERED],
       [flags |-> {"ERRTX_OVERFLOW"},
        errorBit |-> CO_EM_CAN_TX_OVERFLOW, errorCode |-> CO_EMC_CAN_OVERRUN],
       [flags |-> {"ERRTX_PDO_LATE"},
        errorBit |-> CO_EM_TPDO_OUTSIDE_WINDOW, errorCode |-> CO_EMC_COMMUNICATION],
       [flags |-> {"ERRRX_PASSIVE"},
        errorBit |-> CO_EM_CAN_RX_BUS_PASSIVE, errorCode |-> CO_EMC_CAN_PASSIVE],
       [flags |-> {"ERRRX_OVERFLOW"},
        errorBit |-> CO_EM_CAN_RXB_OVERFLOW, errorCode |-> CO_EM_CAN_RXB_OVERFLOW] >>

\* lines 547-578: the CO_error calls CO_EM_process makes for the driver
\* status CANerrSt, in their order
MonitorCalls(e, CANerrSt) ==
    LET old == e.CANerrorStatusOld
        ch  == (CANerrSt \ old) \cup (old \ CANerrSt)
        hit == {i \in 1..Len(MonitoredConditions) : ch \cap MonitoredConditions[i].flags # {}}
        nth(k) == CHOOSE i \in hit : Cardinality({j \in hit : j <= i}) = k
    IN  [k \in 1..Cardinality(hit) |->
            [setError  |-> CANerrSt \cap MonitoredConditions[nth(k)].flags # {},
             errorBit  |-> MonitoredConditions[nth(k)].errorBit,
             errorCode |-> MonitoredConditions[nth(k)].errorCode,
             flags     |-> MonitoredConditions[nth(k)].flags]]

\* lines 582-605: cond is the set of the CO_CONFIG_ERR_CONDITION_* predicates
\* that evaluate to true in this call
ErrorRegisterOf(cond) ==
      (IF "GENERIC" \in cond THEN CO_ERR_REG_GENERIC_ERR ELSE 0)
    + (IF "COMMUNICATION" \in cond THEN CO_ERR_REG_COMMUNICATION ELSE 0)
    + (IF "MANUFACTURER" \in cond THEN CO_ERR_REG_MANUFACTURER ELSE 0)

\* lines 610-612
InhibitAdvance(e, timeDifference_us) ==
    IF Lt32(e.inhibitEmTimer, e.inhibitEmTime_us)
    THEN [e EXCEPT !.inhibitEmTimer = Add32(@, timeDifference_us)]
    ELSE e

\* DrainCond without the test of line 616
DrainCond_NoInhibit(e, bufferFull) ==
    /\ e.fifoPpPtr # e.fifoWrPtr
    /\ ~bufferFull

\* lines 615-617
DrainCond(e, bufferFull) ==
    /\ e.fifoPpPtr # e.fifoWrPtr
    /\ ~Lt32(e.inhibitEmTimer, e.inhibitEmTime_us)
    /\ ~bufferFull

\* fifoPpPtrNext that skips the entry behind the one popped
fifoPpPtrNext_Twice(fifoPpPtr) == (fifoPpPtr + 2) % (CAP + 1)

\* fifoPpPtrNext without the increment: the pointer stays
fifoPpPtrNext_Stuck(fifoPpPtr) == fifoPpPtr

\* lines 645-646
fifoPpPtrNext(fifoPpPtr) ==
    IF fifoPpPtr + 1 < CAP + 1 THEN fifoPpPtr + 1 ELSE 0

\* OverflowStep with the test of line 654 made first: an overflow that was
\* not annotated yet is cleared too once the FIFO is empty
OverflowStep_ClearsFirst(e) ==
    IF e.fifoOverflow # 0 /\ e.fifoPpPtr = e.fifoWrPtr
    THEN CO_errorReset([e EXCEPT !.fifoOverflow = 0],
                       CO_EM_EMERGENCY_BUFFER_FULL, U32zero)
    ELSE IF e.fifoOverflow = 1
    THEN CO_errorReport([e EXCEPT !.fifoOverflow = 2],
                        CO_EM_EMERGENCY_BUFFER_FULL, CO_EMC_GENERIC, U32zero)
    ELSE e

\* OverflowStep without the call of line 652: the overflow is not annotated
OverflowStep_NoReport(e) ==
    IF e.fifoOverflow = 1
    THEN [e EXCEPT !.fifoOverflow = 2]
    ELSE IF e.fifoOverflow = 2 /\ e.fifoPpPtr = e.fifoWrPtr
    THEN CO_errorReset([e EXCEPT !.fifoOverflow = 0],
                       CO_EM_EMERGENCY_BUFFER_FULL, U32zero)
    ELSE e

\* lines 650-657
OverflowStep(e) ==
    IF e.fifoOverflow = 1
    THEN CO_errorReport([e EXCEPT !.fifoOverflow = 2],
                        CO_EM_EMERGENCY_BUFFER_FULL, CO_EMC_GENERIC, U32zero)
    ELSE IF e.fifoOverflow = 2 /\ e.fifoPpPtr = e.fifoWrPtr
    THEN CO_errorReset([e EXCEPT !.fifoOverflow = 0],
                       CO_EM_EMERGENCY_BUFFER_FULL, U32zero)
    ELSE e

\* Drain without the call of lines 634-641
Drain_NoCallback(e, NMTisPreOrOperational, errorRegister) ==
    LET pp   == e.fifoPpPtr
        msg  == U32(BitOr(e.fifo[pp][1][1], errorRegister), e.fifo[pp][1][2])
        e1   == [e EXCEPT !.inhibitEmTimer = U32zero,
                          !.fifo[pp] = <<msg, @[2]>>]
        data == Bytes32(e1.fifo[pp][1]) \o Bytes32(e1.fifo[pp][2])
        e2   == IF NMTisPreOrOperational
                THEN [e1 EXCEPT !.CANtxBuff.data = data]
                ELSE e1
        rx   == IF FALSE
                THEN <<[ident         |-> 0,
                        errorCode     |-> CO_SWAP_16(msg[2]),
                        errorRegister |-> errorRegister,
                        errorBit      |-> msg[1] \div 256,
                        infoCode      |-> CO_SWAP_32(e2.fifo[pp][2])]>>
                ELSE <<>>
        e3   == [e2 EXCEPT !.fifoPpPtr = fifoPpPtrNext(pp)]
    IN  [em |-> OverflowStep(e3), popped |-> TRUE,
         sent |-> NMTisPreOrOperational, rx |-> rx,
         overflowSeen |-> e3.fifoOverflow,
         emptySeen |-> (e3.fifoPpPtr = e3.fifoWrPtr)]

\* lines 619-657: the body of the drain; the result carries what the call
\* handed to the CAN driver and to the consumer callback
Drain(e, NMTisPreOrOperational, errorRegister) ==
    LET pp   == e.fifoPpPtr
        msg  == U32(BitOr(e.fifo[pp][1][1], errorRegister), e.fifo[pp][1][2])
        e1   == [e EXCEPT !.inhibitEmTimer = U32zero,
                          !.fifo[pp] = <<msg, @[2]>>]
        data == Bytes32(e1.fifo[pp][1]) \o Bytes32(e1.fifo[pp][2])
        e2   == IF NMTisPreOrOperational
                THEN [e1 EXCEPT !.CANtxBuff.data = data]
                ELSE e1
        rx   == IF e2.pFunctSignalRx
                THEN <<[ident         |-> 0,
                        errorCode     |-> CO_SWAP_16(msg[2]),
                        errorRegister |-> errorRegister,
                        errorBit      |-> msg[1] \div 256,
                        infoCode      |-> CO_SWAP_32(e2.fifo[pp][2])]>>
                ELSE <<>>
        e3   == [e2 EXCEPT !.fifoPpPtr = fifoPpPtrNext(pp)]
    IN  [em |-> OverflowStep(e3), popped |-> TRUE,
         sent |-> NMTisPreOrOperational, rx |-> rx,
         overflowSeen |-> e3.fifoOverflow,
         emptySeen |-> (e3.fifoPpPtr = e3.fifoWrPtr)]

\* lines 538-682, timerNext_us == NULL
CO_EM_process(e, NMTisPreOrOperational, timeDifference_us, CANerrSt, cond, bufferFull) ==
    LET e1  == CANerrMonitor(e, CANerrSt)
        reg == ErrorRegisterOf(cond)
        e2  == InhibitAdvance([e1 EXCEPT !.errorRegister = reg],
                              timeDifference_us)
    IN  IF DrainCond(e2, bufferFull)
        THEN Drain(e2, NMTisPreOrOperational, reg)
        ELSE [em |-> e2, popped |-> FALSE, sent |-> FALSE, rx |-> <<>>,
              overflowSeen |-> e2.fifoOverflow, emptySeen |-> FALSE]

\* lines 511-521; fn tells whether the function pointer is not NULL
CO_EM_initCallbackRx(e, fn) == [e EXCEPT !.pFunctSignalRx = fn]

(***************************************************************************)
(* OD object "error status bits".  The bytes copied are given as the set   *)
(* of the numbers of their bits that are 1.                                *)
(***************************************************************************)
\* lines 271-280 and 299-308: the number of bytes copied
StatusCount(dataLength, count) ==
    LET c == IF CO_CONFIG_EM_ERR_STATUS_BITS_COUNT \div 8 > count THEN count
             ELSE CO_CONFIG_EM_ERR_STATUS_BITS_COUNT \div 8
    IN  IF dataLength # 0 /\ c > dataLength THEN dataLength ELSE c

\* lines 258-284; dataLength is stream->dataLength
OD_read_statusBits(e, dataLength, subIndex, count) ==
    IF subIndex # 0
    THEN [returnCode |-> "ODR_DEV_INCOMPAT", n |-> 0, bits |-> {}]
    ELSE LET countRead == StatusCount(dataLength, count)
         IN  [returnCode |-> "ODR_OK", n |-> countRead,
              bits |-> {b \in e.errorStatusBits : b < 8 * countRead}]

\* lines 286-312; bufBits are the bits that are 1 in buf
OD_write_statusBits(e, dataLength, subIndex, bufBits, count) ==
    IF subIndex # 0
    THEN [returnCode |-> "ODR_DEV_INCOMPAT", n |-> 0, em |-> e]
    ELSE LET countWrite == StatusCount(dataLength, count)
         IN  [returnCode |-> "ODR_OK", n |-> countWrite,
              em |-> [e EXCEPT !.errorStatusBits =
                         {b \in @ : b >= 8 * countWrite}
                         \cup {b \in bufBits : b < 8 * countWrite}]]

(***************************************************************************)
(* OD 0x1014 "COB-ID EMCY" and OD 0x1015 "Inhibit time EMCY".  A written   *)
(* COB-ID word is the record [bit31, reserved, canId] of its bit fields    *)
(* 31, 30..11 and 10..0.                                                   *)
(***************************************************************************)
\* lines 73-79: the word OD_read_1014 hands to the SDO server
OD_read_1014(e) ==
    [bit31    |-> ~e.producerEnabled,
     reserved |-> 0,
     canId    |-> IF e.producerCanId = CO_CAN_ID_EMERGENCY
                  THEN CO_CAN_ID_EMERGENCY + e.nodeId
                  ELSE e.producerCanId]

\* OD_write_1014 without the second test of lines 102-104: the CAN-ID may
\* change while the producer is enabled
OD_write_1014_NoIdTest(e, v) ==
    LET newCanId   == v.canId
        newEnabled == ~v.bit31 /\ newCanId # 0
    IN  IF v.reserved # 0
        THEN [em |-> e, returnCode |-> "ODR_INVALID_VALUE"]
        ELSE [em |-> [e EXCEPT
                  !.producerEnabled = newEnabled,
                  !.producerCanId =
                      IF newCanId = CO_CAN_ID_EMERGENCY + e.nodeId
                      THEN CO_CAN_ID_EMERGENCY ELSE newCanId,
                  !.CANtxBuff.ident = IF newEnabled THEN newCanId ELSE @,
                  !.OD_1014 = v],
              returnCode |-> "ODR_OK"]

\* lines 96-127
OD_write_1014(e, v) ==
    LET newCanId   == v.canId
        curCanId   == IF e.producerCanId = CO_CAN_ID_EMERGENCY
                      THEN CO_CAN_ID_EMERGENCY + e.nodeId
                      ELSE e.producerCanId
        newEnabled == ~v.bit31 /\ newCanId # 0
    IN  IF v.reserved # 0
           \/ (e.producerEnabled /\ newEnabled /\ newCanId # curCanId)
        THEN [em |-> e, returnCode |-> "ODR_INVALID_VALUE"]
        ELSE [em |-> [e EXCEPT
                  !.producerEnabled = newEnabled,
                  !.producerCanId =
                      IF newCanId = CO_CAN_ID_EMERGENCY + e.nodeId
                      THEN CO_CAN_ID_EMERGENCY ELSE newCanId,
                  !.CANtxBuff.ident = IF newEnabled THEN newCanId ELSE @,
                  !.OD_1014 = v],
              returnCode |-> "ODR_OK"]

\* lines 174-179
OD_write_1015(e, inhibitTime_100us) ==
    [e EXCEPT !.inhibitEmTime_us = U32((inhibitTime_100us * 100) \div 65536,
                                       (inhibitTime_100us * 100) % 65536),
              !.inhibitEmTimer = U32zero,
              !.OD_1015 = inhibitTime_100us]

(***************************************************************************)
(* OD 0x1003 "Pre-defined error field".  count is the size of the caller's *)
(* buffer (read) or the number of bytes written (write); the stream, the   *)
(* buffer and returnCode are not NULL.                                     *)
(***************************************************************************)
\* OD_read_1003 without the correction of lines 210-212: the index is not
\* wrapped into the ring
OD_read_1003_NoWrap(e, subIndex, count) ==
    IF count < 4
    THEN [returnCode |-> "ODR_DEV_INCOMPAT", n |-> 0, value |-> <<>>]
    ELSE IF subIndex = 0
    THEN [returnCode |-> "ODR_OK", n |-> 1, value |-> <<e.fifoCount>>]
    ELSE IF subIndex <= e.fifoCount
    THEN LET index == e.fifoWrPtr - subIndex
         IN  IF index < 0 \/ index >= CAP + 1
             THEN [returnCode |-> "ODR_DEV_INCOMPAT", n |-> 0, value |-> <<>>]
             ELSE [returnCode |-> "ODR_OK", n |-> 4,
                   value |-> <<e.fifo[index][1]>>]
    ELSE [returnCode |-> "ODR_NO_DATA", n |-> 0, value |-> <<>>]

\* lines 190-224
OD_read_1003(e, subIndex, count) ==
    IF count < 4
    THEN [returnCode |-> "ODR_DEV_INCOMPAT", n |-> 0, value |-> <<>>]
    ELSE IF subIndex = 0
    THEN [returnCode |-> "ODR_OK", n |-> 1, value |-> <<e.fifoCount>>]
    ELSE IF subIndex <= e.fifoCount
    THEN LET i     == e.fifoWrPtr - subIndex
             index == IF i < 0 THEN i + CAP + 1 ELSE i
         IN  IF i >= CAP + 1
             THEN [returnCode |-> "ODR_DEV_INCOMPAT", n |-> 0, value |-> <<>>]
             ELSE [returnCode |-> "ODR_OK", n |-> 4,
                   value |-> <<e.fifo[index][1]>>]
    ELSE [returnCode |-> "ODR_NO_DATA", n |-> 0, value |-> <<>>]

\* OD_write_1003 that empties the FIFO too: the entries not sent yet are lost
OD_write_1003_DropsPending(e, subIndex, count, value) ==
    IF subIndex # 0 \/ count # 1
    THEN [em |-> e, returnCode |-> "ODR_DEV_INCOMPAT", n |-> 0]
    ELSE IF value # 0
    THEN [em |-> e, returnCode |-> "ODR_INVALID_VALUE", n |-> 0]
    ELSE [em |-> [e EXCEPT !.fifoCount = 0, !.fifoPpPtr = e.fifoWrPtr],
          returnCode |-> "ODR_OK", n |-> 1]

\* OD_write_1003 without the test of lines 236-239: every value clears
OD_write_1003_AnyValue(e, subIndex, count, value) ==
    IF subIndex # 0 \/ count # 1
    THEN [em |-> e, returnCode |-> "ODR_DEV_INCOMPAT", n |-> 0]
    ELSE [em |-> [e EXCEPT !.fifoCount = 0], returnCode |-> "ODR_OK", n |-> 1]

\* lines 226-249
OD_write_1003(e, subIndex, count, value) ==
    IF subIndex # 0 \/ count # 1
    THEN [em |-> e, returnCode |-> "ODR_DEV_INCOMPAT", n |-> 0]
    ELSE IF value # 0
    THEN [em |-> e, returnCode |-> "ODR_INVALID_VALUE", n |-> 0]
    ELSE [em |-> [e EXCEPT !.fifoCount = 0], returnCode |-> "ODR_OK", n |-> 1]

(***************************************************************************)
(* CO_EM_init(): the object after construction with the Object Dictionary  *)
(* of example/OD.c.                                                        *)
(***************************************************************************)
EmInit(cap, nodeId) ==
    [errorStatusBits   |-> {},
     fifo              |-> [i \in 0..cap |-> <<U32zero, U32zero>>],
     fifoWrPtr         |-> 0,
     fifoPpPtr         |-> 0,
     fifoOverflow      |-> 0,
     fifoCount         |-> 0,
     producerEnabled   |-> TRUE,
     producerCanId     |-> CO_CAN_ID_EMERGENCY,
     nodeId            |-> nodeId,
     inhibitEmTime_us  |-> U32zero,
     inhibitEmTimer    |-> U32zero,
     CANerrorStatusOld |-> {},
     errorRegister     |-> 0,
     pFunctSignalRx    |-> FALSE,
     CANtxBuff         |-> [ident |-> CO_CAN_ID_EMERGENCY + nodeId,
                            data  |-> <<0, 0, 0, 0, 0, 0, 0, 0>>],
     OD_1014           |-> [bit31 |-> FALSE, reserved |-> 0,
                            canId |-> CO_CAN_ID_EMERGENCY],
     OD_1015           |-> 0]

(***************************************************************************)
(* Inputs of the calls.                                                    *)
(***************************************************************************)
BufferSizes == {1, 2}

NodeIds == {5}

ReportBits == {17, 42}

ErrorCodes == {20480}

InfoCodes == {U32(57005, 48879)}

DriverStates == {{}}

(***************************************************************************)
(* Observations.  They record what a call was given and what it handed     *)
(* out; no operation of the program reads them.                            *)
(***************************************************************************)
FifoSize == CAP + 1

\* number of entries between fifoPpPtr and fifoWrPtr
Pending(e) == (e.fifoWrPtr - e.fifoPpPtr + FifoSize) % FifoSize

\* a FIFO slot without the error register byte that the drain adds
Strip(slot) == <<U32((slot[1][1] \div 256) * 256, slot[1][2]), slot[2]>>

\* the entries written between two values of fifoWrPtr, oldest first
NewEntries(e, e2) ==
    LET n == (e2.fifoWrPtr - e.fifoWrPtr + FifoSize) % FifoSize
    IN  [i \in 1..n |-> Strip(e2.fifo[(e.fifoWrPtr + i - 1) % FifoSize])]

NoCall == [op |-> "none"]

NoTask == [pc |-> "idle"]

NoGap == [valid |-> FALSE, sum |-> 0, prior |-> FALSE, elapsed |-> 0]

NoHist ==
    [reports |-> 0,
     edges   |-> [b \in ReportBits |-> 0],
     enq     |-> [b \in ReportBits |-> 0],
     full    |-> [b \in ReportBits |-> 0],
     lastSet |-> [b \in ReportBits |-> "none"],
     kinds   |-> [b \in ReportBits |-> <<>>],
     log     |-> <<>>]

\* the state of the bit a CO_error call addresses
BitIsSet(e, errorBit) == ErrorBitIndex(errorBit) \in e.errorStatusBits

(***************************************************************************)
(* Object Dictionary interface (301/CO_ODinterface.c).  od.list is the     *)
(* list of OD_entry_t of the OD_t, in the order of the array; a pointer to *)
(* an entry is its position in the array, counted from 0.                  *)
(***************************************************************************)
RECURSIVE OD_find_loop(_, _, _, _, _)

\* OD_find_loop without the test of lines 188-193 after the loop
OD_find_loop_NoLastTest(list, index, min, max, passes) ==
    IF min < max
    THEN LET cur   == (min + max) \div 2
             entry == list[cur + 1]
         IN  IF index = entry.index
             THEN [found |-> TRUE, at |-> cur, passes |-> passes + 1]
             ELSE IF index < entry.index
             THEN OD_find_loop(list, index, min,
                               IF cur > 0 THEN cur - 1 ELSE cur, passes + 1)
             ELSE OD_find_loop(list, index, cur + 1, max, passes + 1)
    ELSE [found |-> FALSE, at |-> 0, passes |-> passes]

\* lines 172-195: the loop and the test that follows it; passes counts the
\* passes of the loop
OD_find_loop(list, index, min, max, passes) ==
    IF min < max
    THEN LET cur   == (min + max) \div 2
             entry == list[cur + 1]
         IN  IF index = entry.index
             THEN [found |-> TRUE, at |-> cur, passes |-> passes + 1]
             ELSE IF index < entry.index
             THEN OD_find_loop(list, index, min,
                               IF cur > 0 THEN cur - 1 ELSE cur, passes + 1)
             ELSE OD_find_loop(list, index, cur + 1, max, passes + 1)
    ELSE IF min = max /\ index = list[min + 1].index
    THEN [found |-> TRUE, at |-> min, passes |-> passes]
    ELSE [found |-> FALSE, at |-> 0, passes |-> passes]

\* lines 160-197; odNull tells that the od argument is NULL
OD_find(odNull, list, index) ==
    IF odNull \/ Len(list) = 0
    THEN [found |-> FALSE, at |-> 0, passes |-> 0]
    ELSE OD_find_loop(list, index, 0, Len(list) - 1, 0)

(***************************************************************************)
(* The OD memory is the sequence od.mem of bytes; a pointer into it is the *)
(* position of a byte, and 0 is the NULL pointer.  An OD_stream_t is the   *)
(* record [data, object, dataLength, dataOffset], an OD_IO_t the record    *)
(* [stream, read, write].  The stream, buf and returnCode arguments of the *)
(* read and write functions are not NULL.                                  *)
(***************************************************************************)
\* memcpy(buf, mem + addr, n)
MemRead(mem, addr, n) == [i \in 1..n |-> mem[addr + i - 1]]

\* memcpy(mem + addr, buf, Len(buf))
MemWrite(mem, addr, buf) ==
    [i \in 1..Len(mem) |->
        IF addr <= i /\ i < addr + Len(buf) THEN buf[i - addr + 1] ELSE mem[i]]

\* OD_readOriginal without line 69: the offset stays after the last segment
OD_readOriginal_NoReset(stream, mem, count) ==
    IF stream.data = 0
    THEN [returnCode |-> "ODR_SUB_NOT_EXIST", n |-> 0, at |-> 0,
          bytes |-> <<>>, stream |-> stream]
    ELSE IF stream.dataOffset > 0 \/ stream.dataLength > count
    THEN IF stream.dataOffset >= stream.dataLength
         THEN [returnCode |-> "ODR_DEV_INCOMPAT", n |-> 0, at |-> 0,
               bytes |-> <<>>, stream |-> stream]
         ELSE LET dataLenToCopy == stream.dataLength - stream.dataOffset
                  at            == stream.dataOffset
              IN  IF dataLenToCopy > count
                  THEN [returnCode |-> "ODR_PARTIAL", n |-> count, at |-> at,
                        bytes  |-> MemRead(mem, stream.data + at, count),
                        stream |-> [stream EXCEPT !.dataOffset = @ + count]]
                  ELSE [returnCode |-> "ODR_OK", n |-> dataLenToCopy, at |-> at,
                        bytes  |-> MemRead(mem, stream.data + at, dataLenToCopy),
                        stream |-> stream]
    ELSE [returnCode |-> "ODR_OK", n |-> stream.dataLength, at |-> 0,
          bytes  |-> MemRead(mem, stream.data, stream.dataLength),
          stream |-> stream]

\* OD_readOriginal without line 59: the length is not reduced by the offset
OD_readOriginal_NoReduce(stream, mem, count) ==
    IF stream.data = 0
    THEN [returnCode |-> "ODR_SUB_NOT_EXIST", n |-> 0, at |-> 0,
          bytes |-> <<>>, stream |-> stream]
    ELSE IF stream.dataOffset > 0 \/ stream.dataLength > count
    THEN IF stream.dataOffset >= stream.dataLength
         THEN [returnCode |-> "ODR_DEV_INCOMPAT", n |-> 0, at |-> 0,
               bytes |-> <<>>, stream |-> stream]
         ELSE LET dataLenToCopy == stream.dataLength
                  at            == stream.dataOffset
              IN  IF dataLenToCopy > count
                  THEN [returnCode |-> "ODR_PARTIAL", n |-> count, at |-> at,
                        bytes  |-> MemRead(mem, stream.data + at, count),
                        stream |-> [stream EXCEPT !.dataOffset = @ + count]]
                  ELSE [returnCode |-> "ODR_OK", n |-> dataLenToCopy, at |-> at,
                        bytes  |-> MemRead(mem, stream.data + at, dataLenToCopy),
                        stream |-> [stream EXCEPT !.dataOffset = 0]]
    ELSE [returnCode |-> "ODR_OK", n |-> stream.dataLength, at |-> 0,
          bytes  |-> MemRead(mem, stream.data, stream.dataLength),
          stream |-> stream]

\* lines 31-77
OD_readOriginal(stream, mem, count) ==
    IF stream.data = 0
    THEN [returnCode |-> "ODR_SUB_NOT_EXIST", n |-> 0, at |-> 0,
          bytes |-> <<>>, stream |-> stream]
    ELSE IF stream.dataOffset > 0 \/ stream.dataLength > count
    THEN IF stream.dataOffset >= stream.dataLength
         THEN [returnCode |-> "ODR_DEV_INCOMPAT", n |-> 0, at |-> 0,
               bytes |-> <<>>, stream |-> stream]
         ELSE LET dataLenToCopy == stream.dataLength - stream.dataOffset
                  at            == stream.dataOffset
              IN  IF dataLenToCopy > count
                  THEN [returnCode |-> "ODR_PARTIAL", n |-> count, at |-> at,
                        bytes  |-> MemRead(mem, stream.data + at, count),
                        stream |-> [stream EXCEPT !.dataOffset = @ + count]]
                  ELSE [returnCode |-> "ODR_OK", n |-> dataLenToCopy, at |-> at,
                        bytes  |-> MemRead(mem, stream.data + at, dataLenToCopy),
                        stream |-> [stream EXCEPT !.dataOffset = 0]]
    ELSE [returnCode |-> "ODR_OK", n |-> stream.dataLength, at |-> 0,
          bytes  |-> MemRead(mem, stream.data, stream.dataLength),
          stream |-> stream]

\* OD_writeOriginal with the memcpy of line 131 before the test of line 124
OD_writeOriginal_CopyFirst(stream, mem, buf) ==
    LET count == Len(buf)
    IN  IF stream.data = 0
        THEN [returnCode |-> "ODR_SUB_NOT_EXIST", n |-> 0, at |-> 0,
              mem |-> mem, stream |-> stream]
        ELSE IF stream.dataOffset > 0 \/ stream.dataLength > count
        THEN IF stream.dataOffset >= stream.dataLength
             THEN [returnCode |-> "ODR_DEV_INCOMPAT", n |-> 0, at |-> 0,
                   mem |-> mem, stream |-> stream]
             ELSE LET dataLenToCopy == stream.dataLength - stream.dataOffset
                      at            == stream.dataOffset
                      reset         == [stream EXCEPT !.dataOffset = 0]
                  IN  IF dataLenToCopy > count
                      THEN [returnCode |-> "ODR_PARTIAL", n |-> count, at |-> at,
                            mem    |-> MemWrite(mem, stream.data + at, buf),
                            stream |-> [stream EXCEPT !.dataOffset = @ + count]]
                      ELSE IF dataLenToCopy < count
                      THEN [returnCode |-> "ODR_DATA_LONG", n |-> 0, at |-> at,
                            mem    |-> MemWrite(mem, stream.data + at, SubSeq(buf, 1, dataLenToCopy)),
                            stream |-> reset]
                      ELSE [returnCode |-> "ODR_OK", n |-> dataLenToCopy, at |-> at,
                            mem    |-> MemWrite(mem, stream.data + at, buf),
                            stream |-> reset]
        ELSE IF stream.dataLength < count
        THEN [returnCode |-> "ODR_DATA_LONG", n |-> 0, at |-> 0,
              mem    |-> MemWrite(mem, stream.data, SubSeq(buf, 1, stream.dataLength)),
              stream |-> stream]
        ELSE [returnCode |-> "ODR_OK", n |-> stream.dataLength, at |-> 0,
              mem    |-> MemWrite(mem, stream.data, buf),
              stream |-> stream]

\* lines 80-134; buf holds the count bytes to write
OD_writeOriginal(stream, mem, buf) ==
    LET count == Len(buf)
    IN  IF stream.data = 0
        THEN [returnCode |-> "ODR_SUB_NOT_EXIST", n |-> 0, at |-> 0,
              mem |-> mem, stream |-> stream]
        ELSE IF stream.dataOffset > 0 \/ stream.dataLength > count
        THEN IF stream.dataOffset >= stream.dataLength
             THEN [returnCode |-> "ODR_DEV_INCOMPAT", n |-> 0, at |-> 0,
                   mem |-> mem, stream |-> stream]
             ELSE LET dataLenToCopy == stream.dataLength - stream.dataOffset
                      at            == stream.dataOffset
                      reset         == [stream EXCEPT !.dataOffset = 0]
                  IN  IF dataLenToCopy > count
                      THEN [returnCode |-> "ODR_PARTIAL", n |-> count, at |-> at,
                            mem    |-> MemWrite(mem, stream.data + at, buf),
                            stream |-> [stream EXCEPT !.dataOffset = @ + count]]
                      ELSE IF dataLenToCopy < count
                      THEN [returnCode |-> "ODR_DATA_LONG", n |-> 0, at |-> at,
                            mem    |-> mem,
                            stream |-> reset]
                      ELSE [returnCode |-> "ODR_OK", n |-> dataLenToCopy, at |-> at,
                            mem    |-> MemWrite(mem, stream.data + at, buf),
                            stream |-> reset]
        ELSE IF stream.dataLength < count
        THEN [returnCode |-> "ODR_DATA_LONG", n |-> 0, at |-> 0,
              mem    |-> mem,
              stream |-> stream]
        ELSE [returnCode |-> "ODR_OK", n |-> stream.dataLength, at |-> 0,
              mem    |-> MemWrite(mem, stream.data, buf),
              stream |-> stream]

\* line 436
OD_rwRestart(stream) == [stream EXCEPT !.dataOffset = 0]

\* the OD_obj_var_t at the start of the object of an entry (line 207)
OdvOf(e) ==
    IF e.odObjectType.type = "ODT_REC" THEN e.odObject[1][1].base
    ELSE IF e.odObjectType.type = "ODT_ARR" THEN e.odObject[1].base
    ELSE e.odObject[1]

\* OD_getSub without line 297: the offset of the stream is left as it is
OD_getSub_NoOffsetReset(entry, subIndex, ioNull, odOrig, io) ==
    IF entry = <<>> \/ entry[1].odObject = <<>>
    THEN [returnCode |-> "ODR_IDX_NOT_EXIST", io |-> io, attribute |-> ""]
    ELSE IF ioNull
    THEN [returnCode |-> "ODR_DEV_INCOMPAT", io |-> io, attribute |-> ""]
    ELSE
    LET e     == entry[1]
        type  == e.odObjectType.type
        obj   == e.odObject[1]
        odv   == OdvOf(e)
        odExt == odv.ext
        rec   == IF type = "ODT_REC"
                 THEN {i \in 1..e.subEntriesCount : obj[i].subIndex = subIndex}
                 ELSE {}
        odr   == obj[CHOOSE i \in rec : \A j \in rec : i <= j].base
        bound == IF type = "ODT_VAR"
                 THEN [attribute |-> odv.attribute, data |-> odv.data,
                       dataLength |-> odv.dataLength]
                 ELSE IF type = "ODT_ARR" /\ subIndex = 0
                 THEN [attribute |-> odv.attribute, data |-> odv.data,
                       dataLength |-> 1]
                 ELSE IF type = "ODT_ARR"
                 THEN [attribute |-> obj.attribute,
                       data |-> IF obj.data # 0
                                THEN obj.data + obj.dataElementSizeof * (subIndex - 1)
                                ELSE 0,
                       dataLength |-> obj.dataElementLength]
                 ELSE [attribute |-> odr.attribute, data |-> odr.data,
                       dataLength |-> odr.dataLength]
        orig  == odExt = <<>> \/ odOrig
    IN  IF e.odObjectType.ext /\ odExt = <<>>
        THEN [returnCode |-> "ODR_DEV_INCOMPAT", io |-> io, attribute |-> ""]
        ELSE IF type = "ODT_VAR" /\ subIndex > 0
        THEN [returnCode |-> "ODR_SUB_NOT_EXIST", io |-> io, attribute |-> ""]
        ELSE IF type = "ODT_ARR" /\ subIndex >= e.subEntriesCount
        THEN [returnCode |-> "ODR_SUB_NOT_EXIST", io |-> io, attribute |-> ""]
        ELSE IF type = "ODT_REC" /\ rec = {}
        THEN [returnCode |-> "ODR_SUB_NOT_EXIST", io |-> io, attribute |-> ""]
        ELSE IF type \notin {"ODT_VAR", "ODT_ARR", "ODT_REC"}
        THEN [returnCode |-> "ODR_DEV_INCOMPAT", io |-> io, attribute |-> ""]
        ELSE [returnCode |-> "ODR_OK",
              attribute  |-> bound.attribute,
              io |-> [stream |-> [data       |-> bound.data,
                                  object     |-> IF orig THEN "NULL"
                                                 ELSE odExt[1].object,
                                  dataLength |-> bound.dataLength,
                                  dataOffset |-> io.stream.dataOffset],
                      read   |-> IF orig THEN "OD_readOriginal"
                                 ELSE IF odExt[1].read # "NULL" THEN odExt[1].read
                                 ELSE "OD_readDisabled",
                      write  |-> IF orig THEN "OD_writeOriginal"
                                 ELSE IF odExt[1].write # "NULL" THEN odExt[1].write
                                 ELSE "OD_writeDisabled"]]

\* OD_getSub with > for >= at line 226
OD_getSub_ArrayBound(entry, subIndex, ioNull, odOrig, io) ==
    IF entry = <<>> \/ entry[1].odObject = <<>>
    THEN [returnCode |-> "ODR_IDX_NOT_EXIST", io |-> io, attribute |-> ""]
    ELSE IF ioNull
    THEN [returnCode |-> "ODR_DEV_INCOMPAT", io |-> io, attribute |-> ""]
    ELSE
    LET e     == entry[1]
        type  == e.odObjectType.type
        obj   == e.odObject[1]
        odv   == OdvOf(e)
        odExt == odv.ext
        rec   == IF type = "ODT_REC"
                 THEN {i \in 1..e.subEntriesCount : obj[i].subIndex = subIndex}
                 ELSE {}
        odr   == obj[CHOOSE i \in rec : \A j \in rec : i <= j].base
        bound == IF type = "ODT_VAR"
                 THEN [attribute |-> odv.attribute, data |-> odv.data,
                       dataLength |-> odv.dataLength]
                 ELSE IF type = "ODT_ARR" /\ subIndex = 0
                 THEN [attribute |-> odv.attribute, data |-> odv.data,
                       dataLength |-> 1]
                 ELSE IF type = "ODT_ARR"
                 THEN [attribute |-> obj.attribute,
                       data |-> IF obj.data # 0
                                THEN obj.data + obj.dataElementSizeof * (subIndex - 1)
                                ELSE 0,
                       dataLength |-> obj.dataElementLength]
                 ELSE [attribute |-> odr.attribute, data |-> odr.data,
                       dataLength |-> odr.dataLength]
        orig  == odExt = <<>> \/ odOrig
    IN  IF e.odObjectType.ext /\ odExt = <<>>
        THEN [returnCode |-> "ODR_DEV_INCOMPAT", io |-> io, attribute |-> ""]
        ELSE IF type = "ODT_VAR" /\ subIndex > 0
        THEN [returnCode |-> "ODR_SUB_NOT_EXIST", io |-> io, attribute |-> ""]
        ELSE IF type = "ODT_ARR" /\ subIndex > e.subEntriesCount
        THEN [returnCode |-> "ODR_SUB_NOT_EXIST", io |-> io, attribute |-> ""]
        ELSE IF type = "ODT_REC" /\ rec = {}
        THEN [returnCode |-> "ODR_SUB_NOT_EXIST", io |-> io, attribute |-> ""]
        ELSE IF type \notin {"ODT_VAR", "ODT_ARR", "ODT_REC"}
        THEN [returnCode |-> "ODR_DEV_INCOMPAT", io |-> io, attribute |-> ""]
        ELSE [returnCode |-> "ODR_OK",
              attribute  |-> bound.attribute,
              io |-> [stream |-> [data       |-> bound.data,
                                  object     |-> IF orig THEN "NULL"
                                                 ELSE odExt[1].object,
                                  dataLength |-> bound.dataLength,
                                  dataOffset |-> 0],
                      read   |-> IF orig THEN "OD_readOriginal"
                                 ELSE IF odExt[1].read # "NULL" THEN odExt[1].read
                                 ELSE "OD_readDisabled",
                      write  |-> IF orig THEN "OD_writeOriginal"
                                 ELSE IF odExt[1].write # "NULL" THEN odExt[1].write
                                 ELSE "OD_writeDisabled"]]

\* OD_getSub without the odOrig test of line 276
OD_getSub_IgnoreOrig(entry, subIndex, ioNull, odOrig, io) ==
    IF entry = <<>> \/ entry[1].odObject = <<>>
    THEN [returnCode |-> "ODR_IDX_NOT_EXIST", io |-> io, attribute |-> ""]
    ELSE IF ioNull
    THEN [returnCode |-> "ODR_DEV_INCOMPAT", io |-> io, attribute |-> ""]
    ELSE
    LET e     == entry[1]
        type  == e.odObjectType.type
        obj   == e.odObject[1]
        odv   == OdvOf(e)
        odExt == odv.ext
        rec   == IF type = "ODT_REC"
                 THEN {i \in 1..e.subEntriesCount : obj[i].subIndex = subIndex}
                 ELSE {}
        odr   == obj[CHOOSE i \in rec : \A j \in rec : i <= j].base
        bound == IF type = "ODT_VAR"
                 THEN [attribute |-> odv.attribute, data |-> odv.data,
                       dataLength |-> odv.dataLength]
                 ELSE IF type = "ODT_ARR" /\ subIndex = 0
                 THEN [attribute |-> odv.attribute, data |-> odv.data,
                       dataLength |-> 1]
                 ELSE IF type = "ODT_ARR"
                 THEN [attribute |-> obj.attribute,
                       data |-> IF obj.data # 0
                                THEN obj.data + obj.dataElementSizeof * (subIndex - 1)
                                ELSE 0,
                       dataLength |-> obj.dataElementLength]
                 ELSE [attribute |-> odr.attribute, data |-> odr.data,
                       dataLength |-> odr.dataLength]
        orig  == odExt = <<>>
    IN  IF e.odObjectType.ext /\ odExt = <<>>
        THEN [returnCode |-> "ODR_DEV_INCOMPAT", io |-> io, attribute |-> ""]
        ELSE IF type = "ODT_VAR" /\ subIndex > 0
        THEN [returnCode |-> "ODR_SUB_NOT_EXIST", io |-> io, attribute |-> ""]
        ELSE IF type = "ODT_ARR" /\ subIndex >= e.subEntriesCount
        THEN [returnCode |-> "ODR_SUB_NOT_EXIST", io |-> io, attribute |-> ""]
        ELSE IF type = "ODT_REC" /\ rec = {}
        THEN [returnCode |-> "ODR_SUB_NOT_EXIST", io |-> io, attribute |-> ""]
        ELSE IF type \notin {"ODT_VAR", "ODT_ARR", "ODT_REC"}
        THEN [returnCode |-> "ODR_DEV_INCOMPAT", io |-> io, attribute |-> ""]
        ELSE [returnCode |-> "ODR_OK",
              attribute  |-> bound.attribute,
              io |-> [stream |-> [data       |-> bound.data,
                                  object     |-> IF orig THEN "NULL"
                                                 ELSE odExt[1].object,
                                  dataLength |-> bound.dataLength,
                                  dataOffset |-> 0],
                      read   |-> IF orig THEN "OD_readOriginal"
                                 ELSE IF odExt[1].read # "NULL" THEN odExt[1].read
                                 ELSE "OD_readDisabled",
                      write  |-> IF orig THEN "OD_writeOriginal"
                                 ELSE IF odExt[1].write # "NULL" THEN odExt[1].write
                                 ELSE "OD_writeDisabled"]]

\* lines 200-300; entry is <<>> for NULL and <<e>> for a pointer to e, ioNull
\* tells that io is NULL; subEntry is NULL or ignored
OD_getSub(entry, subIndex, ioNull, odOrig, io) ==
    IF entry = <<>> \/ entry[1].odObject = <<>>
    THEN [returnCode |-> "ODR_IDX_NOT_EXIST", io |-> io, attribute |-> ""]
    ELSE IF ioNull
    THEN [returnCode |-> "ODR_DEV_INCOMPAT", io |-> io, attribute |-> ""]
    ELSE
    LET e     == entry[1]
        type  == e.odObjectType.type
        obj   == e.odObject[1]
        odv   == OdvOf(e)
        odExt == odv.ext
        rec   == IF type = "ODT_REC"
                 THEN {i \in 1..e.subEntriesCount : obj[i].subIndex = subIndex}
                 ELSE {}
        odr   == obj[CHOOSE i \in rec : \A j \in rec : i <= j].base
        bound == IF type = "ODT_VAR"
                 THEN [attribute |-> odv.attribute, data |-> odv.data,
                       dataLength |-> odv.dataLength]
                 ELSE IF type = "ODT_ARR" /\ subIndex = 0
                 THEN [attribute |-> odv.attribute, data |-> odv.data,
                       dataLength |-> 1]
                 ELSE IF type = "ODT_ARR"
                 THEN [attribute |-> obj.attribute,
                       data |-> IF obj.data # 0
                                THEN obj.data + obj.dataElementSizeof * (subIndex - 1)
                                ELSE 0,
                       dataLength |-> obj.dataElementLength]
                 ELSE [attribute |-> odr.attribute, data |-> odr.data,
                       dataLength |-> odr.dataLength]
        orig  == odExt = <<>> \/ odOrig
    IN  IF e.odObjectType.ext /\ odExt = <<>>
        THEN [returnCode |-> "ODR_DEV_INCOMPAT", io |-> io, attribute |-> ""]
        ELSE IF type = "ODT_VAR" /\ subIndex > 0
        THEN [returnCode |-> "ODR_SUB_NOT_EXIST", io |-> io, attribute |-> ""]
        ELSE IF type = "ODT_ARR" /\ subIndex >= e.subEntriesCount
        THEN [returnCode |-> "ODR_SUB_NOT_EXIST", io |-> io, attribute |-> ""]
        ELSE IF type = "ODT_REC" /\ rec = {}
        THEN [returnCode |-> "ODR_SUB_NOT_EXIST", io |-> io, attribute |-> ""]
        ELSE IF type \notin {"ODT_VAR", "ODT_ARR", "ODT_REC"}
        THEN [returnCode |-> "ODR_DEV_INCOMPAT", io |-> io, attribute |-> ""]
        ELSE [returnCode |-> "ODR_OK",
              attribute  |-> bound.attribute,
              io |-> [stream |-> [data       |-> bound.data,
                                  object     |-> IF orig THEN "NULL"
                                                 ELSE odExt[1].object,
                                  dataLength |-> bound.dataLength,
                                  dataOffset |-> 0],
                      read   |-> IF orig THEN "OD_readOriginal"
                                 ELSE IF odExt[1].read # "NULL" THEN odExt[1].read
                                 ELSE "OD_readDisabled",
                      write  |-> IF orig THEN "OD_writeOriginal"
                                 ELSE IF odExt[1].write # "NULL" THEN odExt[1].write
                                 ELSE "OD_writeDisabled"]]

\* lines 137-145
OD_readDisabled(stream, mem, count) ==
    [returnCode |-> "ODR_UNSUPP_ACCESS", n |-> 0, at |-> 0, bytes |-> <<>>, stream |-> stream]

\* lines 148-156
OD_writeDisabled(stream, mem, buf) ==
    [returnCode |-> "ODR_UNSUPP_ACCESS", n |-> 0, at |-> 0, mem |-> mem, stream |-> stream]

\* the entry with the OD_obj_extended_t of its object replaced by ext
WithExt(e, ext) ==
    IF e.odObjectType.type = "ODT_REC"
    THEN [e EXCEPT !.odObject[1][1].base.ext = <<ext>>]
    ELSE IF e.odObjectType.type = "ODT_ARR"
    THEN [e EXCEPT !.odObject[1].base.ext = <<ext>>]
    ELSE [e EXCEPT !.odObject[1].ext = <<ext>>]

\* lines 338-367; entry is <<>> for NULL and <<e>> for a pointer to e, whose
\* odObject is not NULL
OD_extensionIO_init(entry, object, read, write) ==
    IF entry = <<>>
    THEN [returnCode |-> "ODR_IDX_NOT_EXIST", entry |-> entry]
    ELSE IF ~entry[1].odObjectType.ext \/ OdvOf(entry[1]).ext = <<>>
    THEN [returnCode |-> "ODR_PAR_INCOMPAT", entry |-> entry]
    ELSE [returnCode |-> "ODR_OK",
          entry |-> <<WithExt(entry[1], [object |-> object, read |-> read, write |-> write])>>]

\* the OD_IO_t on the stack of OD_get_value and OD_set_value before OD_getSub
LocalIo == [stream |-> [data |-> 0, object |-> "NULL", dataLength |-> 0, dataOffset |-> 0], read |-> "NULL", write |-> "NULL"]

\* the function io.read points to; a read function of the application uses
\* OD_readOriginal
IoReadCall(io, mem, count) ==
    IF io.read = "OD_readDisabled" THEN OD_readDisabled(io.stream, mem, count)
    ELSE OD_readOriginal(io.stream, mem, count)

\* the function io.write points to; a write function of the application uses
\* OD_writeOriginal
IoWriteCall(io, mem, buf) ==
    IF io.write = "OD_writeDisabled" THEN OD_writeDisabled(io.stream, mem, buf)
    ELSE OD_writeOriginal(io.stream, mem, buf)

\* lines 385-401; valNull tells that val is NULL; reads counts the calls of
\* io.read
OD_get_value(entry, subIndex, valNull, len, odOrig, mem) ==
    LET g == OD_getSub(entry, subIndex, FALSE, odOrig, LocalIo)
        r == IoReadCall(g.io, mem, len)
    IN  IF g.returnCode # "ODR_OK"
        THEN [returnCode |-> g.returnCode, val |-> <<>>, reads |-> 0]
        ELSE IF valNull \/ g.io.stream.data = 0
        THEN [returnCode |-> "ODR_DEV_INCOMPAT", val |-> <<>>, reads |-> 0]
        ELSE IF g.io.stream.dataLength # len
        THEN [returnCode |-> "ODR_TYPE_MISMATCH", val |-> <<>>, reads |-> 0]
        ELSE [returnCode |-> r.returnCode, val |-> r.bytes, reads |-> 1]

\* lines 454-469; val holds the len bytes to write and is not NULL; writes
\* counts the calls of io.write
OD_set_value(entry, subIndex, val, odOrig, mem) ==
    LET len == Len(val)
        g   == OD_getSub(entry, subIndex, FALSE, odOrig, LocalIo)
        r   == IoWriteCall(g.io, mem, val)
    IN  IF g.returnCode # "ODR_OK"
        THEN [returnCode |-> g.returnCode, mem |-> mem, writes |-> 0]
        ELSE IF g.io.stream.dataLength # len
        THEN [returnCode |-> "ODR_TYPE_MISMATCH", mem |-> mem, writes |-> 0]
        ELSE [returnCode |-> r.returnCode, mem |-> r.mem, writes |-> 1]

\* the values of ODR_t (CO_ODinterface.h lines 132-192)
ODR_t ==
    [ODR_PARTIAL |-> -1, ODR_OK |-> 0, ODR_OUT_OF_MEM |-> 1,
     ODR_UNSUPP_ACCESS |-> 2, ODR_WRITEONLY |-> 3, ODR_READONLY |-> 4,
     ODR_IDX_NOT_EXIST |-> 5, ODR_NO_MAP |-> 6, ODR_MAP_LEN |-> 7,
     ODR_PAR_INCOMPAT |-> 8, ODR_DEV_INCOMPAT |-> 9, ODR_HW |-> 10,
     ODR_TYPE_MISMATCH |-> 11, ODR_DATA_LONG |-> 12, ODR_DATA_SHORT |-> 13,
     ODR_SUB_NOT_EXIST |-> 14, ODR_INVALID_VALUE |-> 15,
     ODR_VALUE_HIGH |-> 16, ODR_VALUE_LOW |-> 17, ODR_MAX_LESS_MIN |-> 18,
     ODR_NO_RESOURCE |-> 19, ODR_GENERAL |-> 20, ODR_DATA_TRANSF |-> 21,
     ODR_DATA_LOC_CTRL |-> 22, ODR_DATA_DEV_STATE |-> 23,
     ODR_OD_MISSING |-> 23, ODR_NO_DATA |-> 25, ODR_COUNT |-> 26]

\* the table of lines 304-331, abortCodes[i + 1] for the abortCodes[i] of C
abortCodes ==
    << 0, 84148229, 100728832, 100728833, 100728834, 100794368, 100925505,
       100925506, 100925507, 100925511, 101056512, 101122064, 101122066,
       101122067, 101253137, 101253168, 101253169, 101253170, 101253174,
       101318691, 134217728, 134217760, 134217761, 134217762, 134217763,
       134217764 >>

\* OD_getSDOabCode with abortCodes[ODR_GENERAL] for a value out of the table
OD_getSDOabCode_General(returnCode) ==
    IF returnCode < 0 \/ returnCode >= ODR_t.ODR_COUNT
    THEN abortCodes[ODR_t.ODR_GENERAL + 1]
    ELSE abortCodes[returnCode + 1]

\* lines 303-335
OD_getSDOabCode(returnCode) ==
    IF returnCode < 0 \/ returnCode >= ODR_t.ODR_COUNT
    THEN abortCodes[ODR_t.ODR_DEV_INCOMPAT + 1]
    ELSE abortCodes[returnCode + 1]

\* the Emergency object is used without the Object Dictionary side
NoOd == [mem |-> <<>>, list |-> <<>>, io |-> <<>>]

NoXfer == [kind |-> "none"]

(***************************************************************************)
(* Calls made one after the other from the task: each call is one step.    *)
(***************************************************************************)
InitWith(caps) ==
    /\ CAP \in caps
    /\ em \in {EmInit(CAP, n) : n \in NodeIds}
    /\ task = NoTask
    /\ last = NoCall
    /\ pending = <<>>
    /\ fill = 0
    /\ hist = NoHist
    /\ gap = NoGap
    /\ phase = "load"
    /\ od = NoOd
    /\ xfer = NoXfer

Init == InitWith(BufferSizes)

\* one CO_error() call
ReportCall(setError, errorBit, errorCode, infoCode) ==
    LET e2   == CO_error(em, setError, errorBit, errorCode, infoCode)
        edge == BitIsSet(em, errorBit) # setError
    IN  /\ em' = e2
        /\ last' = [op |-> "CO_error", setError |-> setError,
                    errorBit |-> errorBit, errorCode |-> errorCode,
                    infoCode |-> infoCode, edge |-> edge,
                    before |-> Pending(em)]
        /\ pending' = pending \o NewEntries(em, e2)
        /\ fill' = IF fill >= 0 /\ edge /\ fill <= CAP THEN fill + 1 ELSE fill
        /\ UNCHANGED <<od, xfer, CAP, task, phase>>

\* one CO_EM_process() call
ProcessCall(nmt, dt, st, cond, bufferFull, prev) ==
    LET r == CO_EM_process(em, nmt, dt, st, cond, bufferFull)
        n == NewEntries(em, r.em)
        q == pending \o n
    IN  /\ em' = r.em
        /\ last' = [op |-> "CO_EM_process", nmt |-> nmt, cond |-> cond,
                    bufferFull |-> bufferFull,
                    popped |-> r.popped, sent |-> r.sent, rx |-> r.rx,
                    overflowSeen |-> r.overflowSeen,
                    emptySeen |-> r.emptySeen,
                    entry |-> IF r.popped
                              THEN <<Strip(r.em.fifo[em.fifoPpPtr])>>
                              ELSE <<>>,
                    oldest |-> IF q = <<>> THEN <<>> ELSE <<Head(q)>>,
                    new |-> n,
                    prev |-> prev]
        /\ pending' = IF r.popped /\ q # <<>> THEN Tail(q) ELSE q
        /\ fill' = IF r.popped THEN -1 ELSE fill
        /\ UNCHANGED <<od, xfer, CAP, task>>

Report ==
    \E errorBit \in ReportBits, setError \in BOOLEAN,
       errorCode \in ErrorCodes, infoCode \in InfoCodes :
        /\ ReportCall(setError, errorBit, errorCode, infoCode)
        /\ UNCHANGED <<hist, gap>>

\* CO_EM_process() called while NMT is pre-operational or operational
Process ==
    \E st \in DriverStates, bufferFull \in BOOLEAN :
        /\ ProcessCall(TRUE, U32zero, st, {}, bufferFull, NoCall)
        /\ UNCHANGED <<hist, gap, phase>>

Next == Report \/ Process

Spec == Init /\ [][Next]_vars

(***************************************************************************)
(* The same calls, counted: at most MaxReports CO_error calls, the         *)
(* counters of hist kept per bit.                                          *)
(***************************************************************************)
HistAfter(setError, errorBit, e, e2) ==
    LET edge == BitIsSet(e, errorBit) # setError
    IN  [reports |-> hist.reports + 1,
         edges   |-> [hist.edges EXCEPT ![errorBit] = @ + (IF edge THEN 1 ELSE 0)],
         enq     |-> [hist.enq EXCEPT ![errorBit] = @ + Len(NewEntries(e, e2))],
         full    |-> [hist.full EXCEPT ![errorBit] =
                         @ + (IF edge /\ Pending(e) = CAP THEN 1 ELSE 0)],
         lastSet |-> [hist.lastSet EXCEPT ![errorBit] =
                         IF setError THEN "set" ELSE "clear"],
         kinds   |-> hist.kinds,
         log     |-> hist.log]

ReportCounted ==
    \E errorBit \in ReportBits, setError \in BOOLEAN,
       errorCode \in ErrorCodes, infoCode \in InfoCodes :
        /\ hist.reports < MaxReports
        /\ ReportCall(setError, errorBit, errorCode, infoCode)
        /\ hist' = HistAfter(setError, errorBit, em, em')
        /\ UNCHANGED gap

ProcessAny ==
    \E nmt \in BOOLEAN, st \in DriverStates, bufferFull \in BOOLEAN :
        /\ ProcessCall(nmt, U32zero, st, {}, bufferFull, NoCall)
        /\ UNCHANGED <<hist, gap, phase>>

NextSeq == ReportCounted \/ ProcessAny

SpecSeq == Init /\ [][NextSeq]_vars

(***************************************************************************)
(* Emergency frames: CO_error calls with several error codes and info      *)
(* codes, CO_EM_process calls with several values of the error condition   *)
(* predicates, and SDO writes of                                           *)
(* OD 0x1014.  The inhibit time stays 0, as OD.c line 31 sets it.          *)
(***************************************************************************)
FrameBits == {17}

FrameCodes == {20480, 4660}

FrameInfos == {U32(57005, 48879), U32(1, 515)}

Conditions == {{"GENERIC"}, {"COMMUNICATION", "MANUFACTURER"}}

CobIds == {[bit31 |-> TRUE, reserved |-> 0, canId |-> CO_CAN_ID_EMERGENCY],
           [bit31 |-> FALSE, reserved |-> 0, canId |-> CO_CAN_ID_EMERGENCY + 5]}

ReportFrame ==
    \E errorBit \in FrameBits, setError \in BOOLEAN,
       errorCode \in FrameCodes, infoCode \in FrameInfos :
        /\ hist.reports < MaxFrameReports
        /\ ReportCall(setError, errorBit, errorCode, infoCode)
        /\ hist' = [hist EXCEPT !.reports = @ + 1]
        /\ UNCHANGED gap

ProcessFrame ==
    \E nmt \in BOOLEAN, st \in DriverStates, cond \in Conditions,
       bufferFull \in BOOLEAN :
        /\ ProcessCall(nmt, U32zero, st, cond, bufferFull,
                       IF last.op = "CO_error" THEN last ELSE NoCall)
        /\ UNCHANGED <<hist, gap, phase>>

\* an SDO write of OD 0x1014, sub-index 0
Write1014 ==
    \E v \in CobIds :
        LET r == OD_write_1014(em, v)
        IN  /\ em' = r.em
            /\ last' = [op |-> "OD_write_1014", v |-> v,
                        returnCode |-> r.returnCode]
            /\ UNCHANGED <<od, xfer, CAP, task, pending, fill, hist, gap, phase>>

NextFrame == ReportFrame \/ ProcessFrame \/ Write1014

SpecFrame == Init /\ [][NextFrame]_vars

(***************************************************************************)
(* Inhibit time: SDO writes of OD 0x1015 and CO_EM_process calls with      *)
(* several values of timeDifference_us, one of which wraps inhibitEmTimer. *)
(* gap.sum is the time passed to CO_EM_process since the last transmit     *)
(* request, counted up to MaxGap; gap.valid says that there was such a     *)
(* request and that OD 0x1015 was not written since.  After a call         *)
(* gap.elapsed is the sum including that call and gap.prior the value of   *)
(* gap.valid before it.                                                    *)
(***************************************************************************)
InhibitTimes == {0, 1, 3}

TimeDeltas == {U32zero, U32(0, 100), U32(65535, 65436)}

InhibitBits == {17}

GapAdd(sum, dt) ==
    IF dt[1] > 0 \/ sum + dt[2] > MaxGap THEN MaxGap ELSE sum + dt[2]

ReportInhibit ==
    \E errorBit \in InhibitBits, setError \in BOOLEAN,
       errorCode \in ErrorCodes, infoCode \in InfoCodes :
        /\ ReportCall(setError, errorBit, errorCode, infoCode)
        /\ UNCHANGED <<hist, gap>>

ProcessInhibit ==
    \E dt \in TimeDeltas, st \in DriverStates, bufferFull \in BOOLEAN :
        /\ ProcessCall(TRUE, dt, st, {}, bufferFull, NoCall)
        /\ gap' = [valid   |-> gap.valid \/ last'.sent,
                   sum     |-> IF last'.sent THEN 0 ELSE GapAdd(gap.sum, dt),
                   prior   |-> gap.valid,
                   elapsed |-> GapAdd(gap.sum, dt)]
        /\ UNCHANGED <<hist, phase>>

\* an SDO write of OD 0x1015, sub-index 0
Write1015 ==
    \E t \in InhibitTimes :
        /\ em' = OD_write_1015(em, t)
        /\ last' = [op |-> "OD_write_1015", inhibitTime_100us |-> t]
        /\ gap' = NoGap
        /\ UNCHANGED <<od, xfer, CAP, task, pending, fill, hist, phase>>

NextInhibit == ReportInhibit \/ ProcessInhibit \/ Write1015

SpecInhibit == InitWith({2}) /\ [][NextInhibit]_vars

(***************************************************************************)
(* CO_error() called from the task and from an interrupt.  The task's call *)
(* takes two steps, the statements before CO_LOCK_EMCY() and the section   *)
(* between CO_LOCK_EMCY() and CO_UNLOCK_EMCY(); task.l holds the locals    *)
(* between the two.  The interrupt's call runs to its end in one step, at  *)
(* any point where the task is not between CO_LOCK_EMCY() and              *)
(* CO_UNLOCK_EMCY().  hist.kinds[b] lists, in order, whether each entry    *)
(* enqueued for bit b is a raise or a clear, hist.full[b] counts the       *)
(* entries dropped for it.                                                 *)
(***************************************************************************)
KindOf(setError) == IF setError THEN "raise" ELSE "clear"

RaceHist(counted, setError, errorBit, e, e2, locked) ==
    [hist EXCEPT
        !.reports = @ + (IF counted THEN 1 ELSE 0),
        !.kinds[errorBit] = IF Len(NewEntries(e, e2)) > 0
                            THEN Append(@, KindOf(setError)) ELSE @,
        !.full[errorBit] = @ + (IF locked /\ Pending(e) = CAP THEN 1 ELSE 0)]

\* the task enters CO_error() and runs up to CO_LOCK_EMCY(), or returns
TaskCheck ==
    \E errorBit \in ReportBits, setError \in BOOLEAN,
       errorCode \in ErrorCodes, infoCode \in InfoCodes :
        LET l == CO_error_check(em, setError, errorBit, errorCode, infoCode)
        IN  /\ task.pc = "idle"
            /\ hist.reports < MaxRaceReports
            /\ task' = IF l.ret THEN NoTask
                       ELSE [pc |-> "checked", l |-> l, errorBit |-> errorBit]
            /\ last' = [op |-> "CO_error_check", setError |-> setError,
                        errorBit |-> errorBit, ret |-> l.ret]
            /\ hist' = [hist EXCEPT !.reports = @ + 1]
            /\ UNCHANGED <<od, xfer, CAP, em, pending, fill, gap, phase>>

\* the task runs from CO_LOCK_EMCY() to the end of CO_error()
TaskLocked ==
    /\ task.pc = "checked"
    /\ em' = CO_error_locked(em, task.l)
    /\ task' = NoTask
    /\ last' = [op |-> "CO_error_locked", setError |-> task.l.setError,
                errorBit |-> task.errorBit]
    /\ pending' = pending \o NewEntries(em, em')
    /\ hist' = RaceHist(FALSE, task.l.setError, task.errorBit, em, em', TRUE)
    /\ UNCHANGED <<od, xfer, CAP, fill, gap, phase>>

\* an interrupt handler calls CO_error()
IsrReport ==
    \E errorBit \in ReportBits, setError \in BOOLEAN,
       errorCode \in ErrorCodes, infoCode \in InfoCodes :
        /\ hist.reports < MaxRaceReports
        /\ ReportCall(setError, errorBit, errorCode, infoCode)
        /\ hist' = RaceHist(TRUE, setError, errorBit, em, em',
                            BitIsSet(em, errorBit) # setError)
        /\ UNCHANGED gap

\* the task calls CO_EM_process() between its CO_error() calls
ProcessRace ==
    \E st \in DriverStates :
        /\ task.pc = "idle"
        /\ ProcessCall(TRUE, U32zero, st, {}, FALSE, NoCall)
        /\ UNCHANGED <<hist, gap, phase>>

NextRace == TaskCheck \/ TaskLocked \/ IsrReport \/ ProcessRace

SpecRace == Init /\ [][NextRace]_vars

(***************************************************************************)
(* Recovery from overflow: errors are reported and CO_EM_process() is      *)
(* called in any order (phase "load"); then no error is reported any more  *)
(* and CO_EM_process() keeps being called with NMT pre-operational or      *)
(* operational, the transmit buffer free and the inhibit time (0) elapsed  *)
(* (phases "drain0" and "drain1").                                         *)
(***************************************************************************)
LoadReport ==
    \E errorBit \in ReportBits, setError \in BOOLEAN,
       errorCode \in ErrorCodes, infoCode \in InfoCodes :
        /\ phase = "load"
        /\ hist.reports < MaxLiveReports
        /\ ReportCall(setError, errorBit, errorCode, infoCode)
        /\ hist' = [hist EXCEPT !.reports = @ + 1]
        /\ UNCHANGED gap

LoadProcess ==
    \E st \in DriverStates :
        /\ phase = "load"
        /\ ProcessCall(TRUE, U32zero, st, {}, FALSE, NoCall)
        /\ UNCHANGED <<hist, gap, phase>>

\* the last error has been reported
Quiesce ==
    /\ phase = "load"
    /\ phase' = "drain0"
    /\ UNCHANGED <<od, xfer, CAP, em, task, last, pending, fill, hist, gap>>

\* after "load" the parity of the number of CO_EM_process() calls is
\* kept, so that also a call that changes nothing is a step
DrainTick ==
    /\ phase # "load"
    /\ phase' = IF phase = "drain0" THEN "drain1" ELSE "drain0"

DrainProcess ==
    \E st \in DriverStates :
        /\ DrainTick
        /\ ProcessCall(TRUE, U32zero, st, {}, FALSE, NoCall)
        /\ UNCHANGED <<hist, gap>>

NextLive == LoadReport \/ LoadProcess \/ Quiesce \/ DrainProcess

\* CO_EM_process() is called again and again
SpecLive == Init /\ [][NextLive]_vars /\ WF_phase(DrainTick)

(***************************************************************************)
(* OD 0x1014 through SDO: writes of words with and without reserved bits,  *)
(* with bit 31 set and clear and with several CAN-IDs (0, the bare 0x80,   *)
(* 0x80 + nodeId, another one), and reads.                                 *)
(***************************************************************************)
CobIdWords ==
    [bit31 : BOOLEAN, reserved : {0, 1},
     canId : {0, CO_CAN_ID_EMERGENCY, CO_CAN_ID_EMERGENCY + 5,
              CO_CAN_ID_EMERGENCY + 6}]

\* an SDO write of OD 0x1014, sub-index 0
Write1014Any ==
    \E v \in CobIdWords :
        LET r == OD_write_1014(em, v)
        IN  /\ em' = r.em
            /\ last' = [op |-> "OD_write_1014", v |-> v,
                        returnCode |-> r.returnCode]
            /\ UNCHANGED <<od, xfer, CAP, task, pending, fill, hist, gap, phase>>

\* an SDO read of OD 0x1014, sub-index 0
Read1014 ==
    /\ last' = [op |-> "OD_read_1014", v |-> OD_read_1014(em),
                returnCode |-> "ODR_OK"]
    /\ UNCHANGED <<od, xfer, CAP, em, task, pending, fill, hist, gap, phase>>

NextCobId == Write1014Any \/ Read1014

SpecCobId == Init /\ [][NextCobId]_vars

(***************************************************************************)
(* OD 0x1003 through its read and write functions, between CO_error and    *)
(* CO_EM_process calls.  hist.log lists the entries enqueued so far,       *)
(* without the error register, oldest first.                               *)
(***************************************************************************)
HistSubIndices == {0, 1, 2, 3}

ReadCounts == {1, 4}

WriteCounts == {1, 4}

WriteValues == {0, 1}

ReportHist ==
    \E errorBit \in ReportBits, setError \in BOOLEAN,
       errorCode \in ErrorCodes, infoCode \in InfoCodes :
        /\ hist.reports < MaxHistReports
        /\ ReportCall(setError, errorBit, errorCode, infoCode)
        /\ hist' = [hist EXCEPT !.reports = @ + 1,
                                !.log = @ \o NewEntries(em, em')]
        /\ UNCHANGED gap

ProcessHist ==
    \E st \in DriverStates :
        /\ ProcessCall(TRUE, U32zero, st, {"GENERIC"}, FALSE, NoCall)
        /\ hist' = [hist EXCEPT !.log = @ \o NewEntries(em, em')]
        /\ UNCHANGED <<gap, phase>>

Read1003 ==
    \E subIndex \in HistSubIndices, count \in ReadCounts :
        LET r == OD_read_1003(em, subIndex, count)
        IN  /\ last' = [op |-> "OD_read_1003", subIndex |-> subIndex,
                        count |-> count, returnCode |-> r.returnCode,
                        n |-> r.n, value |-> r.value]
            /\ UNCHANGED <<od, xfer, CAP, em, task, pending, fill, hist, gap, phase>>

Write1003 ==
    \E subIndex \in {0, 1}, count \in WriteCounts, value \in WriteValues :
        LET r == OD_write_1003(em, subIndex, count, value)
        IN  /\ em' = r.em
            /\ last' = [op |-> "OD_write_1003", subIndex |-> subIndex,
                        count |-> count, value |-> value,
                        returnCode |-> r.returnCode, n |-> r.n]
            /\ UNCHANGED <<od, xfer, CAP, task, pending, fill, hist, gap, phase>>

NextHist == ReportHist \/ ProcessHist \/ Read1003 \/ Write1003

SpecHist == Init /\ [][NextHist]_vars

(***************************************************************************)
(* OD_find() on the lists of at most MaxCatalog entries with strictly      *)
(* increasing indexes taken from CatalogIndexes; only the index of an      *)
(* entry matters here.                                                     *)
(***************************************************************************)
CatalogIndexes == {4096, 4097, 4099, 4116, 4120, 4608}

FindIndexes == CatalogIndexes \cup {0, 4098, 65535}

RECURSIVE SortedList(_)

\* the entries with the indexes of S, in increasing order
SortedList(S) ==
    IF S = {} THEN <<>>
    ELSE LET lo == CHOOSE i \in S : \A j \in S : i <= j
         IN  <<[index |-> lo]>> \o SortedList(S \ {lo})

Catalogs ==
    {SortedList(S) : S \in {T \in SUBSET CatalogIndexes : Cardinality(T) <= MaxCatalog}}

InitFind ==
    /\ CAP = 1
    /\ em = EmInit(1, 5)
    /\ task = NoTask
    /\ last = NoCall
    /\ pending = <<>>
    /\ fill = 0
    /\ hist = NoHist
    /\ gap = NoGap
    /\ phase = "load"
    /\ od \in {[mem |-> <<>>, list |-> l, io |-> <<>>] : l \in Catalogs}
    /\ xfer = NoXfer

Find ==
    \E index \in FindIndexes, odNull \in BOOLEAN :
        LET r == OD_find(odNull, od.list, index)
        IN  /\ last' = [op |-> "OD_find", odNull |-> odNull, index |-> index,
                        found |-> r.found, at |-> r.at, passes |-> r.passes]
            /\ UNCHANGED <<od, xfer, CAP, em, task, pending, fill, hist, gap, phase>>

NextFind == Find

SpecFind == InitFind /\ [][NextFind]_vars

(***************************************************************************)
(* Resolving sub-entries of an Object Dictionary and moving data through   *)
(* the resolved stream with the default read and write functions.          *)
(***************************************************************************)
\* largest count argument of OD_readOriginal / OD_writeOriginal
MaxCount == 3

\* the bytes of the OD variables before any write: all different
OdMem == [a \in 1..16 |-> 200 + a]

\* an OD_obj_var_t
OdVar(data, dataLength, ext) == [data |-> data, attribute |-> "ODA_SDO_RW", dataLength |-> dataLength, ext |-> ext]

\* an OD_obj_extended_t without write function
OdExt == <<[object |-> "em", read |-> "OD_read_1003", write |-> "NULL"]>>

\* an Object Dictionary with one entry of each kind: a variable of three
\* bytes, an extended array of two elements of two bytes (three bytes apart),
\* a record with sub-indexes 0 and 2, an entry tagged extended without
\* extension, an entry without object, an entry of no known object type and
\* an array without data
OdList ==
    << [index |-> 4096, subEntriesCount |-> 1,
        odObjectType |-> [type |-> "ODT_VAR", ext |-> FALSE],
        odObject |-> <<OdVar(1, 3, <<>>)>>],
       [index |-> 4099, subEntriesCount |-> 3,
        odObjectType |-> [type |-> "ODT_ARR", ext |-> TRUE],
        odObject |-> <<[base |-> OdVar(4, 1, OdExt), data |-> 5,
                        attribute |-> "ODA_SDO_R", dataElementLength |-> 2,
                        dataElementSizeof |-> 3]>>],
       [index |-> 4120, subEntriesCount |-> 2,
        odObjectType |-> [type |-> "ODT_REC", ext |-> FALSE],
        odObject |-> << << [base |-> OdVar(11, 1, <<>>), subIndex |-> 0],
                           [base |-> OdVar(12, 2, <<>>), subIndex |-> 2] >> >>],
       [index |-> 4121, subEntriesCount |-> 1,
        odObjectType |-> [type |-> "ODT_VAR", ext |-> TRUE],
        odObject |-> <<OdVar(14, 1, <<>>)>>],
       [index |-> 4128, subEntriesCount |-> 1,
        odObjectType |-> [type |-> "ODT_VAR", ext |-> FALSE],
        odObject |-> <<>>],
       [index |-> 4129, subEntriesCount |-> 1,
        odObjectType |-> [type |-> "ODT_NONE", ext |-> FALSE],
        odObject |-> <<OdVar(14, 1, <<>>)>>],
       [index |-> 4130, subEntriesCount |-> 3,
        odObjectType |-> [type |-> "ODT_ARR", ext |-> FALSE],
        odObject |-> <<[base |-> OdVar(15, 1, <<>>), data |-> 0,
                        attribute |-> "ODA_SDO_R", dataElementLength |-> 2,
                        dataElementSizeof |-> 2]>>] >>

\* what an OD_IO_t of the caller may hold before the first OD_getSub
StaleIo ==
    { [stream |-> [data |-> 0, object |-> "NULL", dataLength |-> 0, dataOffset |-> 0],
       read |-> "NULL", write |-> "NULL"],
      [stream |-> [data |-> 4, object |-> "em", dataLength |-> 1, dataOffset |-> 2],
       read |-> "NULL", write |-> "NULL"] }

\* sub-indexes asked for
SubIndexes == {0, 1, 2, 3}

\* the buffer of the caller of OD_writeOriginal
WriteBuf == [i \in 1..MaxCount |-> 169 + i]

Counts == 0..MaxCount

Xfer(kind, c, calls, acc, done) == [kind |-> kind, c |-> c, calls |-> calls, acc |-> acc, done |-> done]

FreshXfer == Xfer("fresh", 0, 0, <<>>, FALSE)

OtherXfer == Xfer("other", 0, 0, <<>>, FALSE)

\* reads with one buffer size of at least one byte since OD_getSub, until
\* the read that ends them
ReadXfer(x, count, r) ==
    IF /\ r.returnCode \in {"ODR_OK", "ODR_PARTIAL"}
       /\ count >= 1
       /\ \/ x.kind = "fresh"
          \/ x.kind = "read" /\ x.c = count /\ ~x.done
    THEN Xfer("read", count, x.calls + 1, x.acc \o r.bytes, r.returnCode = "ODR_OK")
    ELSE OtherXfer

\* writes since OD_getSub, until the write that ends them
WriteXfer(x, buf, r) ==
    IF /\ r.returnCode \in {"ODR_OK", "ODR_PARTIAL"}
       /\ \/ x.kind = "fresh"
          \/ x.kind = "write" /\ ~x.done
    THEN Xfer("write", 0, 0, x.acc \o buf, r.returnCode = "ODR_OK")
    ELSE OtherXfer

InitOd ==
    /\ CAP = 1
    /\ em = EmInit(1, 5)
    /\ task = NoTask
    /\ last = NoCall
    /\ pending = <<>>
    /\ fill = 0
    /\ hist = NoHist
    /\ gap = NoGap
    /\ phase = "load"
    /\ od \in {[mem |-> OdMem, list |-> OdList, io |-> io] : io \in StaleIo}
    /\ xfer = NoXfer

\* OD_getSub(entry, subIndex, subEntry, io, odOrig); at is the place of the
\* entry in the list, 0 for a NULL entry; stale is the dataOffset the stream
\* of the caller held before the call
GetSubOf(places, ioNulls, odOrigs) ==
    \E at \in places, subIndex \in SubIndexes, ioNull \in ioNulls, odOrig \in odOrigs :
        LET entry == IF at = 0 THEN <<>> ELSE <<od.list[at]>>
            r     == OD_getSub(entry, subIndex, ioNull, odOrig, od.io)
        IN  /\ last' = [op |-> "OD_getSub", at |-> at, subIndex |-> subIndex,
                        ioNull |-> ioNull, odOrig |-> odOrig,
                        returnCode |-> r.returnCode, attribute |-> r.attribute,
                        stale |-> od.io.stream.dataOffset]
            /\ od' = [od EXCEPT !.io = r.io]
            /\ xfer' = IF r.returnCode = "ODR_OK" THEN FreshXfer ELSE xfer
            /\ UNCHANGED <<CAP, em, task, pending, fill, hist, gap, phase>>

GetSubAny == GetSubOf(0..Len(od.list), BOOLEAN, BOOLEAN)

NextSub == GetSubAny

SpecSub == InitOd /\ [][NextSub]_vars

\* the entries read and written with the default functions
StreamPlaces == {1, 2}

GetSubCell == GetSubOf(StreamPlaces, {FALSE}, {TRUE})

\* io.read(&io.stream, subIndex, buf, count, &returnCode)
ReadOriginal ==
    /\ od.io.read = "OD_readOriginal"
    /\ \E count \in Counts :
        LET r == OD_readOriginal(od.io.stream, od.mem, count)
        IN  /\ last' = [op |-> "OD_readOriginal", count |-> count,
                        returnCode |-> r.returnCode, n |-> r.n, at |-> r.at,
                        bytes |-> r.bytes]
            /\ od' = [od EXCEPT !.io.stream = r.stream]
            /\ xfer' = ReadXfer(xfer, count, r)
    /\ UNCHANGED <<CAP, em, task, pending, fill, hist, gap, phase>>

\* io.write(&io.stream, subIndex, buf, count, &returnCode)
WriteOriginal ==
    /\ od.io.write = "OD_writeOriginal"
    /\ \E count \in Counts :
        LET buf == SubSeq(WriteBuf, 1, count)
            r   == OD_writeOriginal(od.io.stream, od.mem, buf)
        IN  /\ last' = [op |-> "OD_writeOriginal", count |-> count,
                        returnCode |-> r.returnCode, n |-> r.n, at |-> r.at,
                        bytes |-> buf]
            /\ od' = [od EXCEPT !.io.stream = r.stream, !.mem = r.mem]
            /\ xfer' = WriteXfer(xfer, buf, r)
    /\ UNCHANGED <<CAP, em, task, pending, fill, hist, gap, phase>>

\* OD_rwRestart(&io.stream)
Restart ==
    /\ od.io.read = "OD_readOriginal"
    /\ last' = [op |-> "OD_rwRestart"]
    /\ od' = [od EXCEPT !.io.stream = OD_rwRestart(@)]
    /\ xfer' = OtherXfer
    /\ UNCHANGED <<CAP, em, task, pending, fill, hist, gap, phase>>

NextStream == GetSubCell \/ ReadOriginal \/ WriteOriginal \/ Restart

SpecStream == InitOd /\ [][NextStream]_vars

(***************************************************************************)
(* Entries with an extension: OD_extensionIO_init, OD_getSub and calls of  *)
(* the read and write functions OD_getSub has put into the OD_IO_t.        *)
(***************************************************************************)
\* an OD_obj_extended_t as the Object Dictionary defines it
ExtUnset == <<[object |-> "NULL", read |-> "NULL", write |-> "NULL"]>>

\* an extended variable of two bytes and a variable without extension
ExtList ==
    << [index |-> 4116, subEntriesCount |-> 1,
        odObjectType |-> [type |-> "ODT_VAR", ext |-> TRUE],
        odObject |-> <<OdVar(1, 2, ExtUnset)>>],
       [index |-> 4120, subEntriesCount |-> 1,
        odObjectType |-> [type |-> "ODT_VAR", ext |-> FALSE],
        odObject |-> <<OdVar(3, 1, <<>>)>>] >>

\* arguments of OD_extensionIO_init
ExtObjects == {"app"}

ExtReads == {"NULL", "appRead"}

ExtWrites == {"NULL", "appWrite"}

ExtSubIndexes == {0, 1}

ExtCounts == {1, 2}

\* inited: places of the entries OD_extensionIO_init has succeeded on;
\* bound: what the last successful OD_getSub was called with
ExtXfer(inited, bound) == [kind |-> "ext", inited |-> inited, bound |-> bound]

InitExt ==
    /\ CAP = 1
    /\ em = EmInit(1, 5)
    /\ task = NoTask
    /\ last = NoCall
    /\ pending = <<>>
    /\ fill = 0
    /\ hist = NoHist
    /\ gap = NoGap
    /\ phase = "load"
    /\ od \in {[mem |-> OdMem, list |-> ExtList, io |-> io] : io \in StaleIo}
    /\ xfer = ExtXfer({}, <<>>)

\* OD_extensionIO_init(entry, object, read, write)
ExtensionInit ==
    \E at \in 0..Len(od.list), object \in ExtObjects, read \in ExtReads, write \in ExtWrites :
        LET entry == IF at = 0 THEN <<>> ELSE <<od.list[at]>>
            r     == OD_extensionIO_init(entry, object, read, write)
        IN  /\ last' = [op |-> "OD_extensionIO_init", at |-> at, returnCode |-> r.returnCode]
            /\ od' = IF at = 0 THEN od ELSE [od EXCEPT !.list[at] = r.entry[1]]
            /\ xfer' = IF r.returnCode = "ODR_OK"
                       THEN [xfer EXCEPT !.inited = @ \cup {at}] ELSE xfer
            /\ UNCHANGED <<CAP, em, task, pending, fill, hist, gap, phase>>

\* OD_getSub(entry, subIndex, NULL, &io, odOrig)
GetSubExt ==
    \E at \in 1..Len(od.list), subIndex \in ExtSubIndexes, odOrig \in BOOLEAN :
        LET r == OD_getSub(<<od.list[at]>>, subIndex, FALSE, odOrig, od.io)
        IN  /\ last' = [op |-> "OD_getSub", at |-> at, subIndex |-> subIndex,
                        odOrig |-> odOrig, returnCode |-> r.returnCode]
            /\ od' = [od EXCEPT !.io = r.io]
            /\ xfer' = IF r.returnCode = "ODR_OK"
                       THEN [xfer EXCEPT !.bound = <<[at |-> at, odOrig |-> odOrig,
                                                     inited |-> at \in xfer.inited]>>]
                       ELSE xfer
            /\ UNCHANGED <<CAP, em, task, pending, fill, hist, gap, phase>>

\* io.read(&io.stream, subIndex, buf, count, &returnCode)
IoRead ==
    /\ od.io.read # "NULL"
    /\ \E count \in ExtCounts :
        LET r == IoReadCall(od.io, od.mem, count)
        IN  /\ last' = [op |-> "io.read", fn |-> od.io.read, count |-> count,
                        returnCode |-> r.returnCode, n |-> r.n, bytes |-> r.bytes]
            /\ od' = [od EXCEPT !.io.stream = r.stream]
    /\ UNCHANGED <<xfer, CAP, em, task, pending, fill, hist, gap, phase>>

\* io.write(&io.stream, subIndex, buf, count, &returnCode)
IoWrite ==
    /\ od.io.write # "NULL"
    /\ \E count \in ExtCounts :
        LET buf == SubSeq(WriteBuf, 1, count)
            r   == IoWriteCall(od.io, od.mem, buf)
        IN  /\ last' = [op |-> "io.write", fn |-> od.io.write, count |-> count,
                        returnCode |-> r.returnCode, n |-> r.n, bytes |-> buf]
            /\ od' = [od EXCEPT !.io.stream = r.stream, !.mem = r.mem]
    /\ UNCHANGED <<xfer, CAP, em, task, pending, fill, hist, gap, phase>>

NextExt == ExtensionInit \/ GetSubExt \/ IoRead \/ IoWrite

SpecExt == InitExt /\ [][NextExt]_vars

(***************************************************************************)
(* OD_get_value and OD_set_value on the entries of the Object Dictionary.  *)
(***************************************************************************)
\* the entries asked for: none, the variable, the record and the array
\* without data
ValuePlaces == {0, 1, 3, 7}

\* the len argument
ValueLens == {1, 2, 3}

\* OD_get_value(entry, subIndex, val, len, odOrig)
GetValue ==
    \E at \in ValuePlaces, subIndex \in SubIndexes, valNull \in BOOLEAN, len \in ValueLens, odOrig \in BOOLEAN :
        LET entry == IF at = 0 THEN <<>> ELSE <<od.list[at]>>
            r     == OD_get_value(entry, subIndex, valNull, len, odOrig, od.mem)
        IN  /\ last' = [op |-> "OD_get_value", at |-> at, subIndex |-> subIndex,
                        valNull |-> valNull, len |-> len, odOrig |-> odOrig,
                        returnCode |-> r.returnCode, val |-> r.val, reads |-> r.reads]
            /\ UNCHANGED <<od, xfer, CAP, em, task, pending, fill, hist, gap, phase>>

\* OD_set_value(entry, subIndex, val, len, odOrig); get is what OD_get_value
\* gives for the same arguments
SetValue ==
    \E at \in ValuePlaces, subIndex \in SubIndexes, len \in ValueLens, odOrig \in BOOLEAN :
        LET entry == IF at = 0 THEN <<>> ELSE <<od.list[at]>>
            val   == SubSeq(WriteBuf, 1, len)
            r     == OD_set_value(entry, subIndex, val, odOrig, od.mem)
            g     == OD_get_value(entry, subIndex, FALSE, len, odOrig, od.mem)
        IN  /\ last' = [op |-> "OD_set_value", at |-> at, subIndex |-> subIndex,
                        len |-> len, odOrig |-> odOrig, val |-> val,
                        returnCode |-> r.returnCode, writes |-> r.writes,
                        get |-> [returnCode |-> g.returnCode, reads |-> g.reads]]
            /\ od' = [od EXCEPT !.mem = r.mem]
            /\ UNCHANGED <<xfer, CAP, em, task, pending, fill, hist, gap, phase>>

NextValue == GetValue \/ SetValue

SpecValue == InitOd /\ [][NextValue]_vars

(***************************************************************************)
(* SDO abort codes of the return codes.                                    *)
(***************************************************************************)
\* the values passed to OD_getSDOabCode are -MaxCode .. MaxCode
MaxCode == 60

\* OD_getSDOabCode(returnCode)
AbortCode ==
    \E returnCode \in (0 - MaxCode)..MaxCode :
        /\ last' = [op |-> "OD_getSDOabCode", returnCode |-> returnCode,
                    abCode |-> OD_getSDOabCode(returnCode)]
        /\ UNCHANGED <<od, xfer, CAP, em, task, pending, fill, hist, gap, phase>>

NextAbort == AbortCode

SpecAbort == InitOd /\ [][NextAbort]_vars

(***************************************************************************)
(* Own emergency messages handed to the callback of the consumer: the      *)
(* calls of SpecFrame without the SDO writes, and CO_EM_initCallbackRx.     *)
(***************************************************************************)
\* CO_EM_initCallbackRx(em, pFunctSignalRx)
InitCallbackRx ==
    \E fn \in BOOLEAN :
        /\ em' = CO_EM_initCallbackRx(em, fn)
        /\ last' = [op |-> "CO_EM_initCallbackRx", fn |-> fn]
        /\ UNCHANGED <<od, xfer, CAP, task, pending, fill, hist, gap, phase>>

NextRx == ReportFrame \/ ProcessFrame \/ InitCallbackRx

SpecRx == Init /\ [][NextRx]_vars

(***************************************************************************)
(* The error status of the CAN driver: CO_EM_process calls with several    *)
(* values of CANerrorStatus and no other caller of CO_error.               *)
(***************************************************************************)
CanFlags == {"ERRTX_WARNING", "ERRRX_WARNING", "ERRTX_PASSIVE", "ERRTX_BUS_OFF", "ERRTX_OVERFLOW", "ERRTX_PDO_LATE", "ERRRX_PASSIVE", "ERRRX_OVERFLOW"}

\* the values of CANerrorStatus: no flag, one flag, both warnings, a bus
\* that is passive in both directions, every flag
CanStates ==
    {{}} \cup {{f} : f \in CanFlags}
    \cup {{"ERRTX_WARNING", "ERRRX_WARNING"}, {"ERRTX_PASSIVE", "ERRRX_PASSIVE"}, CanFlags}

InitCan == InitWith({1})

\* CO_EM_process(em, NMTisPreOrOperational, 0, NULL) with CANerrorStatus st
ProcessCan ==
    \E st \in CanStates, nmt \in BOOLEAN :
        LET r == CO_EM_process(em, nmt, U32zero, st, {}, FALSE)
        IN  /\ em' = r.em
            /\ last' = [op |-> "CO_EM_process", st |-> st,
                        old |-> em.CANerrorStatusOld,
                        calls |-> MonitorCalls(em, st)]
            /\ UNCHANGED <<od, xfer, CAP, task, pending, fill, hist, gap, phase>>

NextCan == ProcessCan

SpecCan == InitCan /\ [][NextCan]_vars

(***************************************************************************)
(* CO_error calls with error bits inside and outside of errorStatusBits.   *)
(***************************************************************************)
\* the error bits reported: one of the bitmap, the first one after it and
\* the largest uint8_t
WrongBits == {17, 80, 255}

ReportWrong ==
    \E errorBit \in WrongBits, setError \in BOOLEAN,
       errorCode \in ErrorCodes, infoCode \in InfoCodes :
        /\ ReportCall(setError, errorBit, errorCode, infoCode)
        /\ UNCHANGED <<hist, gap>>

ProcessWrong ==
    \E bufferFull \in BOOLEAN :
        /\ ProcessCall(TRUE, U32zero, {}, {"GENERIC"}, bufferFull, NoCall)
        /\ UNCHANGED <<hist, gap, phase>>

NextWrong == ReportWrong \/ ProcessWrong

SpecWrong == InitWith({1}) /\ [][NextWrong]_vars

(***************************************************************************)
(* The error status bits: counted CO_error calls, CO_EM_process calls and   *)
(* SDO reads and writes of the OD object of the error status bits.         *)
(***************************************************************************)
MaxStatusReports == 2

\* what an SDO write brings: no bit, a reported bit, other bits
StatusBufs == {{}, {17}, {3, 42}}

\* the count argument: one byte and the whole bitmap
StatusCounts == {1, 10}

\* the dataLength of the OD variable: unknown (0) or the bitmap
StatusLengths == {0, 10}

ReportStatus ==
    \E errorBit \in ReportBits, setError \in BOOLEAN,
       errorCode \in ErrorCodes, infoCode \in InfoCodes :
        /\ hist.reports < MaxStatusReports
        /\ ReportCall(setError, errorBit, errorCode, infoCode)
        /\ hist' = HistAfter(setError, errorBit, em, em')
        /\ UNCHANGED gap

ProcessStatus ==
    /\ ProcessCall(TRUE, U32zero, {}, {}, FALSE, NoCall)
    /\ UNCHANGED <<hist, gap, phase>>

\* an SDO read of the error status bits
ReadStatus ==
    \E dataLength \in StatusLengths, subIndex \in {0, 1}, count \in StatusCounts :
        LET r == OD_read_statusBits(em, dataLength, subIndex, count)
        IN  /\ last' = [op |-> "OD_read_statusBits", subIndex |-> subIndex,
                        count |-> count, returnCode |-> r.returnCode,
                        n |-> r.n, bits |-> r.bits]
            /\ UNCHANGED <<em, od, xfer, CAP, task, pending, fill, hist, gap, phase>>

\* an SDO write of the error status bits
WriteStatus ==
    \E dataLength \in StatusLengths, subIndex \in {0, 1}, count \in StatusCounts, bufBits \in StatusBufs :
        LET r == OD_write_statusBits(em, dataLength, subIndex, bufBits, count)
        IN  /\ em' = r.em
            /\ last' = [op |-> "OD_write_statusBits", subIndex |-> subIndex,
                        count |-> count, returnCode |-> r.returnCode,
                        n |-> r.n, bits |-> bufBits]
            /\ UNCHANGED <<od, xfer, CAP, task, pending, fill, hist, gap, phase>>

NextStatus == ReportStatus \/ ProcessStatus \/ ReadStatus \/ WriteStatus

SpecStatus == InitWith({1}) /\ [][NextStatus]_vars

(***************************************************************************)
(* CO_EM_process() and an SDO write of OD 0x1003 in the task, CO_error()    *)
(* called from an interrupt.  The task's CO_EM_process() call takes four   *)
(* steps: lines 538-646, the tests of lines 650 and 654, the assignment of *)
(* line 651 or 655, the CO_error() call of line 652 or 656.  The interrupt *)
(* runs where the task is not between CO_LOCK_EMCY() and CO_UNLOCK_EMCY(), *)
(* which the task is only inside its own CO_error() calls.  last.lock      *)
(* tells whether the statements of the step are made between               *)
(* CO_LOCK_EMCY() and CO_UNLOCK_EMCY().                                    *)
(***************************************************************************)
MaxLockReports == 4

\* lines 619-646: the body of the drain up to the increment of the pointer
DrainPop(e, NMTisPreOrOperational, errorRegister) ==
    LET pp   == e.fifoPpPtr
        msg  == U32(BitOr(e.fifo[pp][1][1], errorRegister), e.fifo[pp][1][2])
        e1   == [e EXCEPT !.inhibitEmTimer = U32zero,
                          !.fifo[pp] = <<msg, @[2]>>]
        data == Bytes32(e1.fifo[pp][1]) \o Bytes32(e1.fifo[pp][2])
        e2   == IF NMTisPreOrOperational
                THEN [e1 EXCEPT !.CANtxBuff.data = data]
                ELSE e1
    IN  [e2 EXCEPT !.fifoPpPtr = fifoPpPtrNext(pp)]

\* an interrupt handler calls CO_error()
LockReport ==
    \E errorBit \in ReportBits, setError \in BOOLEAN,
       errorCode \in ErrorCodes, infoCode \in InfoCodes :
        /\ hist.reports < MaxLockReports
        /\ em' = CO_error(em, setError, errorBit, errorCode, infoCode)
        /\ last' = [op |-> "CO_error", lock |-> TRUE,
                    full |-> (BitIsSet(em, errorBit) # setError
                              /\ Pending(em) = CAP)]
        /\ hist' = [hist EXCEPT !.reports = @ + 1]
        /\ UNCHANGED <<od, xfer, CAP, task, pending, fill, gap, phase>>

\* the task enters CO_EM_process() and runs up to line 646
LockProcess ==
    LET reg == ErrorRegisterOf({})
        e2  == InhibitAdvance([CANerrMonitor(em, {}) EXCEPT !.errorRegister = reg],
                              U32zero)
    IN  /\ task.pc = "idle"
        /\ em' = IF DrainCond(e2, FALSE) THEN DrainPop(e2, TRUE, reg) ELSE e2
        /\ task' = IF DrainCond(e2, FALSE) THEN [pc |-> "popped"] ELSE NoTask
        /\ last' = [op |-> "CO_EM_process", lock |-> FALSE]
        /\ UNCHANGED <<od, xfer, CAP, pending, fill, hist, gap, phase>>

\* lines 650 and 654: the task tests fifoOverflow and the pointers
LockTest ==
    LET branch == IF em.fifoOverflow = 1 THEN "report"
                  ELSE IF em.fifoOverflow = 2 /\ em.fifoPpPtr = em.fifoWrPtr
                  THEN "reset" ELSE "none"
    IN  /\ task.pc = "popped"
        /\ task' = IF branch = "none" THEN NoTask
                   ELSE [pc |-> "tested", branch |-> branch,
                         seen |-> em.fifoOverflow]
        /\ last' = [op |-> "test", lock |-> FALSE]
        /\ UNCHANGED <<od, xfer, CAP, em, pending, fill, hist, gap, phase>>

\* line 651 or 655: the task assigns fifoOverflow
LockAssign ==
    /\ task.pc = "tested"
    /\ em' = [em EXCEPT !.fifoOverflow = IF task.branch = "report" THEN 2 ELSE 0]
    /\ task' = [pc |-> "assigned", branch |-> task.branch]
    /\ last' = [op |-> "fifoOverflow", lock |-> FALSE,
                seen |-> task.seen, found |-> em.fifoOverflow]
    /\ UNCHANGED <<od, xfer, CAP, pending, fill, hist, gap, phase>>

\* line 652 or 656: the task calls CO_errorReport() or CO_errorReset()
LockAnnotate ==
    /\ task.pc = "assigned"
    /\ em' = IF task.branch = "report"
             THEN CO_errorReport(em, CO_EM_EMERGENCY_BUFFER_FULL,
                                 CO_EMC_GENERIC, U32zero)
             ELSE CO_errorReset(em, CO_EM_EMERGENCY_BUFFER_FULL, U32zero)
    /\ task' = NoTask
    /\ last' = [op |-> "CO_error", lock |-> TRUE, full |-> FALSE]
    /\ UNCHANGED <<od, xfer, CAP, pending, fill, hist, gap, phase>>

\* the task serves an SDO write of the value 0 to OD 0x1003, sub-index 0
LockWrite1003 ==
    /\ task.pc = "idle"
    /\ em' = OD_write_1003(em, 0, 1, 0).em
    /\ last' = [op |-> "OD_write_1003", lock |-> FALSE]
    /\ UNCHANGED <<od, xfer, CAP, task, pending, fill, hist, gap, phase>>

NextLock ==
    \/ LockReport \/ LockProcess \/ LockTest
    \/ LockAssign \/ LockAnnotate \/ LockWrite1003

SpecLock == InitWith({1}) /\ [][NextLock]_vars

(***************************************************************************)
(* The drain of CO_EM_process() preempted by CO_error() calls of an         *)
(* interrupt.  The task's CO_EM_process() call takes five steps: lines     *)
(* 538-617, lines 619-622, the first four bytes of the memcpy of line 626, *)
(* its last four bytes with CO_CANsend(), lines 645-657.  task.pp is the   *)
(* local fifoPpPtr, task.reg the local errorRegister.  pending lists the   *)
(* entries enqueued and not popped yet, as CO_error wrote them.            *)
(***************************************************************************)
MaxPreemptReports == 3

\* the slots of em->fifo that hold the entries of pending
PendingSlots ==
    {(em.fifoPpPtr + k) % (CAP + 1) : k \in 0..(Len(pending) - 1)}

\* an interrupt handler calls CO_error()
PreemptReport ==
    \E errorBit \in ReportBits, setError \in BOOLEAN,
       errorCode \in ErrorCodes, infoCode \in InfoCodes :
        /\ hist.reports < MaxPreemptReports
        /\ em' = CO_error(em, setError, errorBit, errorCode, infoCode)
        /\ last' = [op |-> "CO_error", pc |-> task.pc]
        /\ pending' = pending \o NewEntries(em, em')
        /\ hist' = [hist EXCEPT !.reports = @ + 1]
        /\ UNCHANGED <<od, xfer, CAP, task, fill, gap, phase>>

\* lines 538-617: the task enters CO_EM_process() and tests the FIFO
PreemptBegin ==
    LET reg == ErrorRegisterOf({"GENERIC"})
        e2  == InhibitAdvance([CANerrMonitor(em, {}) EXCEPT !.errorRegister = reg],
                              U32zero)
    IN  /\ task.pc = "idle"
        /\ em' = e2
        /\ task' = IF DrainCond(e2, FALSE)
                   THEN [pc |-> "drain", pp |-> e2.fifoPpPtr, reg |-> reg]
                   ELSE NoTask
        /\ last' = [op |-> "CO_EM_process"]
        /\ UNCHANGED <<od, xfer, CAP, pending, fill, hist, gap, phase>>

\* lines 619-622: the error register is added to the entry
PreemptRegister ==
    /\ task.pc = "drain"
    /\ em' = [em EXCEPT !.inhibitEmTimer = U32zero,
                        !.fifo[task.pp] =
                            <<U32(BitOr(@[1][1], task.reg), @[1][2]), @[2]>>]
    /\ task' = [task EXCEPT !.pc = "copy"]
    /\ last' = [op |-> "errorRegister"]
    /\ UNCHANGED <<od, xfer, CAP, pending, fill, hist, gap, phase>>

\* line 626: the first four bytes are copied
PreemptCopyFirst ==
    /\ task.pc = "copy"
    /\ em' = [em EXCEPT !.CANtxBuff.data =
                  Bytes32(em.fifo[task.pp][1]) \o SubSeq(@, 5, 8)]
    /\ task' = [task EXCEPT !.pc = "copied"]
    /\ last' = [op |-> "memcpy"]
    /\ UNCHANGED <<od, xfer, CAP, pending, fill, hist, gap, phase>>

\* lines 626-629: the last four bytes are copied and CO_CANsend() is called
PreemptSend ==
    /\ task.pc = "copied"
    /\ em' = [em EXCEPT !.CANtxBuff.data =
                  SubSeq(@, 1, 4) \o Bytes32(em.fifo[task.pp][2])]
    /\ task' = [task EXCEPT !.pc = "sent"]
    /\ last' = [op |-> "CO_CANsend", reg |-> task.reg, entry |-> Head(pending)]
    /\ UNCHANGED <<od, xfer, CAP, pending, fill, hist, gap, phase>>

\* lines 645-657: the pointer is advanced and the overflow is handled
PreemptAdvance ==
    LET e3 == [em EXCEPT !.fifoPpPtr = fifoPpPtrNext(task.pp)]
        e4 == OverflowStep(e3)
    IN  /\ task.pc = "sent"
        /\ em' = e4
        /\ task' = NoTask
        /\ last' = [op |-> "fifoPpPtr"]
        /\ pending' = Tail(pending) \o NewEntries(e3, e4)
        /\ UNCHANGED <<od, xfer, CAP, fill, hist, gap, phase>>

NextPreempt ==
    \/ PreemptReport \/ PreemptBegin \/ PreemptRegister
    \/ PreemptCopyFirst \/ PreemptSend \/ PreemptAdvance

SpecPreempt == Init /\ [][NextPreempt]_vars

(***************************************************************************)
(* Progress of the drain: in phase "load" errors are reported, OD 0x1015   *)
(* is written and CO_EM_process() is called in any order; afterwards       *)
(* CO_EM_process() is called with NMT pre-operational or operational, with *)
(* the transmit buffer full or free.  phase tells which of the two the     *)
(* last call was and the parity of their number.  The calls with the       *)
(* transmit buffer free, each of which adds 100 us to the inhibit timer,   *)
(* are made again and again.                                               *)
(***************************************************************************)
FairTimes == {1, 2}

FairWrite1015 ==
    \E t \in FairTimes :
        /\ phase = "load"
        /\ em' = OD_write_1015(em, t)
        /\ last' = [op |-> "OD_write_1015", inhibitTime_100us |-> t]
        /\ UNCHANGED <<od, xfer, CAP, task, pending, fill, hist, gap, phase>>

FreeTick ==
    /\ phase # "load"
    /\ phase' = IF phase = "free0" THEN "free1" ELSE "free0"

BusyTick ==
    /\ phase # "load"
    /\ phase' = IF phase = "busy0" THEN "busy1" ELSE "busy0"

\* CO_EM_process() finds the transmit buffer full or free; the calls that
\* find it free are made with a time difference of 100 us
FairProcess ==
    \E bufferFull \in BOOLEAN, dt \in {U32zero, U32(0, 100)} :
        /\ bufferFull \/ dt = U32(0, 100)
        /\ IF bufferFull THEN BusyTick ELSE FreeTick
        /\ ProcessCall(TRUE, dt, {}, {}, bufferFull, NoCall)
        /\ UNCHANGED <<hist, gap>>

NextFair ==
    \/ LoadReport \/ LoadProcess \/ FairWrite1015 \/ Quiesce
    \/ FairProcess

SpecFair == Init /\ [][NextFair]_vars /\ WF_phase(FreeTick)

(***************************************************************************)
(* Claims about the calls made one after the other (Spec).                 *)
(***************************************************************************)

\* C3: a CO_error call whose setError argument equals the current value of
\* the addressed bit changes nothing: the bitmap, fifoWrPtr, fifoPpPtr,
\* fifoCount, fifoOverflow and every FIFO slot are the same after the call.
C3_NoEdgeNoEffect ==
    [][(last'.op = "CO_error" /\ BitIsSet(em, last'.errorBit) = last'.setError)
        => em' = em]_vars

\* a duplicate raise was made while entries were pending, and changed nothing
C3_Witness ==
    /\ last.op = "CO_error"
    /\ ~last.edge
    /\ last.setError
    /\ Pending(em) > 0

\* C4: every pop of CO_EM_process takes the oldest entry that CO_error
\* enqueued and that was not popped before, so the popped entries are a
\* prefix of the enqueued ones, in order; the entries between fifoPpPtr and
\* fifoWrPtr are exactly the enqueued entries not popped yet.
C4_FifoOrder ==
    /\ (last.op = "CO_EM_process" /\ last.popped) => last.entry = last.oldest
    /\ pending = [i \in 1..Pending(em) |->
                    Strip(em.fifo[(em.fifoPpPtr + i - 1) % FifoSize])]

\* a pop was made after the ring wrapped and with an entry still pending
C4_Witness ==
    /\ last.op = "CO_EM_process"
    /\ last.popped
    /\ em.fifoWrPtr < em.fifoPpPtr
    /\ Len(pending) >= 1

\* C8: from the empty FIFO of a fresh object and without a drain, after n
\* edges with n <= CAP fifoCount is n; an edge reported while CAP entries are
\* pending sets fifoOverflow to 1 and leaves fifoWrPtr, fifoPpPtr, fifoCount
\* and every FIFO slot as they were.
C8_FillAndOverflow ==
    [][/\ (fill' >= 0 /\ fill' <= CAP) => em'.fifoCount = fill'
       /\ (last'.op = "CO_error" /\ BitIsSet(em, last'.errorBit) # last'.setError
              /\ Pending(em) = CAP)
           => /\ em'.fifoOverflow = 1
              /\ em'.fifoWrPtr = em.fifoWrPtr
              /\ em'.fifoPpPtr = em.fifoPpPtr
              /\ em'.fifoCount = em.fifoCount
              /\ em'.fifo = em.fifo]_vars

\* the edge after CAP edges, with no drain: the entry was dropped
C8_Witness ==
    /\ fill = CAP + 1
    /\ CAP = 2
    /\ em.fifoOverflow = 1
    /\ em.fifoCount = CAP
    /\ last.op = "CO_error" /\ last.edge /\ last.before = CAP

(***************************************************************************)
(* Claims about counted sequences of calls (SpecSeq).                      *)
(***************************************************************************)

\* C2 as stated: after any sequence of CO_error calls on a bit, the bit has
\* the value of the last setError argument and the number of entries
\* enqueued for the bit equals the number of edges of the sequence.
C2_AsStated ==
    \A b \in ReportBits :
        hist.lastSet[b] # "none" =>
            /\ (b \in em.errorStatusBits) = (hist.lastSet[b] = "set")
            /\ hist.enq[b] = hist.edges[b]

\* C2, amended: after any sequence of CO_error calls on a bit, the bit has
\* the value of the last setError argument and the number of entries
\* enqueued for the bit equals the number of edges reported while fewer than
\* CAP entries were pending; an edge reported while CAP entries are pending
\* changes the bit and enqueues nothing.
C2_EdgesEnqueuedUnlessFull ==
    \A b \in ReportBits :
        hist.lastSet[b] # "none" =>
            /\ (b \in em.errorStatusBits) = (hist.lastSet[b] = "set")
            /\ hist.enq[b] = hist.edges[b] - hist.full[b]

\* three edges on one bit, one of them dropped because the FIFO was full
C2_Witness ==
    \E b \in ReportBits :
        /\ hist.edges[b] = 3
        /\ hist.full[b] = 1
        /\ hist.enq[b] = 2
        /\ b \in em.errorStatusBits

\* the entries CO_EM_process enqueues for the overflow of the FIFO
BufferFullRaised ==
    <<U32(CO_EM_EMERGENCY_BUFFER_FULL * 256, CO_EMC_GENERIC), U32zero>>

BufferFullCleared ==
    <<U32(CO_EM_EMERGENCY_BUFFER_FULL * 256, CO_EMC_NO_ERROR), U32zero>>

\* C9 as stated: whenever a drain finds fifoOverflow == 1 after the pop it
\* sets fifoOverflow to 2 and an EMERGENCY_BUFFER_FULL raise entry with code
\* GENERIC is enqueued; whenever it finds fifoOverflow == 2 and the ring
\* empty after the pop it sets fifoOverflow to 0 and an
\* EMERGENCY_BUFFER_FULL clear entry with code NO_ERROR is enqueued.
C9_AsStated ==
    (last.op = "CO_EM_process" /\ last.popped) =>
        /\ last.overflowSeen = 1 =>
              em.fifoOverflow = 2 /\ last.new = <<BufferFullRaised>>
        /\ (last.overflowSeen = 2 /\ last.emptySeen) =>
              em.fifoOverflow = 0 /\ last.new = <<BufferFullCleared>>

\* C9, amended: a drain that finds fifoOverflow == 1 after the pop sets it
\* to 2 and calls CO_errorReport(EMERGENCY_BUFFER_FULL, GENERIC): the raise
\* entry is enqueued if the EMERGENCY_BUFFER_FULL bit was clear, and nothing
\* is enqueued if it was already set.  A drain that finds fifoOverflow == 2
\* and the ring empty after the pop sets it to 0 and calls
\* CO_errorReset(EMERGENCY_BUFFER_FULL): the clear entry with code NO_ERROR
\* is enqueued if the bit was set, nothing if it was clear.
C9_OverflowAnnotation ==
    [][(last'.op = "CO_EM_process" /\ last'.popped) =>
        LET wasSet == CO_EM_EMERGENCY_BUFFER_FULL \in em.errorStatusBits
        IN  /\ last'.overflowSeen = 1 =>
                  /\ em'.fifoOverflow = 2
                  /\ last'.new = IF wasSet THEN <<>> ELSE <<BufferFullRaised>>
            /\ (last'.overflowSeen = 2 /\ last'.emptySeen) =>
                  /\ em'.fifoOverflow = 0
                  /\ last'.new = IF wasSet THEN <<BufferFullCleared>> ELSE <<>>]_vars

\* a drain found fifoOverflow == 1 with the EMERGENCY_BUFFER_FULL bit still
\* set from the overflow before: it enqueued nothing
C9_Witness ==
    /\ last.op = "CO_EM_process"
    /\ last.popped
    /\ last.overflowSeen = 1
    /\ last.new = <<>>
    /\ em.fifoOverflow = 2

(***************************************************************************)
(* Claims about the emergency frames (SpecFrame).                          *)
(***************************************************************************)
Le16(x) == <<x % 256, x \div 256>>

\* C5: CO_error(bit k, set, code C, info I) on a clear in-range bit k and an
\* empty FIFO, followed by a CO_EM_process call with the transmit buffer not
\* full and NMT pre-operational or operational, pops the entry and hands the
\* CAN driver the frame C (little-endian), the error register computed by
\* that process call, k, I (little-endian).
C5_RoundTrip ==
    (/\ last.op = "CO_EM_process"
     /\ last.prev.op = "CO_error"
     /\ last.prev.setError /\ last.prev.edge /\ last.prev.before = 0
     /\ last.prev.errorBit < CO_CONFIG_EM_ERR_STATUS_BITS_COUNT
     /\ last.nmt /\ ~last.bufferFull)
    => /\ last.popped /\ last.sent
       /\ em.errorRegister = ErrorRegisterOf(last.cond)
       /\ em.CANtxBuff.data =
              Le16(last.prev.errorCode)
              \o <<em.errorRegister, last.prev.errorBit>>
              \o Le16(last.prev.infoCode[2]) \o Le16(last.prev.infoCode[1])

\* the frame 00 50 01 11 EF BE AD DE went out for a report made on an
\* empty FIFO
C5_Witness ==
    /\ last.op = "CO_EM_process"
    /\ last.prev.op = "CO_error"
    /\ last.prev.edge /\ last.prev.before = 0
    /\ last.sent
    /\ em.CANtxBuff.data = <<0, 80, 1, 17, 239, 190, 173, 222>>

\* C7 as stated: a CO_EM_process call made while producerEnabled is false
\* copies nothing into the CAN transmit buffer, requests no send and does
\* not advance fifoPpPtr.
C7_AsStated ==
    [][(last'.op = "CO_EM_process" /\ ~em.producerEnabled)
        => /\ em'.CANtxBuff = em.CANtxBuff
           /\ ~last'.sent
           /\ em'.fifoPpPtr = em.fifoPpPtr]_vars

(***************************************************************************)
(* Claims about the inhibit time (SpecInhibit).                            *)
(***************************************************************************)
InhibitTimeOf(e) == e.inhibitEmTime_us[1] * 65536 + e.inhibitEmTime_us[2]

\* C6: when CO_EM_process requests a transmission and OD 0x1015 was not
\* written since the transmit request before, the timeDifference_us values
\* passed to the calls after that request, up to and including this call,
\* add up to at least the inhibit time.
C6_InhibitGap ==
    (last.op = "CO_EM_process" /\ last.sent /\ gap.prior)
        => gap.elapsed >= InhibitTimeOf(em)

\* the second of two queued emergencies went out exactly 300 us after the
\* first one, with an inhibit time of 300 us
C6_Witness ==
    /\ last.op = "CO_EM_process" /\ last.sent /\ gap.prior
    /\ em.OD_1015 = 3
    /\ gap.elapsed = 300
    /\ Pending(em) = 0

(***************************************************************************)
(* Claims about CO_error() called from task and interrupt (SpecRace).      *)
(***************************************************************************)
\* C1 as stated: with an interrupt's CO_error() call preempting the task's
\* CO_error() call outside the critical section, the entries enqueued for
\* one bit alternate raise / clear: no two raise entries and no two clear
\* entries follow each other.  (Stated here for the runs in which no entry
\* of any bit was dropped because of a full FIFO.)
C1_AsStated ==
    (\A b \in ReportBits : hist.full[b] = 0) =>
        \A b \in ReportBits :
            \A i \in 1..(Len(hist.kinds[b]) - 1) :
                hist.kinds[b][i] # hist.kinds[b][i + 1]

(***************************************************************************)
(* Claims about the recovery from overflow (SpecLive).                     *)
(***************************************************************************)
Recovered ==
    /\ Pending(em) = 0
    /\ em.fifoOverflow = 0
    /\ CO_EM_EMERGENCY_BUFFER_FULL \notin em.errorStatusBits

\* C10 as stated: once no further errors are reported and CO_EM_process()
\* keeps being called with the inhibit time elapsed, the transmit buffer not
\* full and NMT pre-operational or operational, eventually the FIFO is
\* empty, fifoOverflow is 0 and the EMERGENCY_BUFFER_FULL bit is clear.
C10_AsStated == (phase # "load") ~> Recovered

(***************************************************************************)
(* Claims about OD 0x1014 (SpecCobId).                                     *)
(***************************************************************************)
\* C11: a write of OD 0x1014 with a reserved bit (30..11) set, or made while
\* the producer is enabled with a word that leaves it enabled and carries a
\* CAN-ID other than the current effective one, returns ODR_INVALID_VALUE
\* and changes nothing: not producerEnabled, not producerCanId, not the
\* transmit buffer, not the stored OD word.
C11_RejectedWrite ==
    [][(/\ last'.op = "OD_write_1014"
        /\ \/ last'.v.reserved # 0
           \/ /\ em.producerEnabled
              /\ ~last'.v.bit31 /\ last'.v.canId # 0
              /\ last'.v.canId # OD_read_1014(em).canId)
       => (last'.returnCode = "ODR_INVALID_VALUE" /\ em' = em)]_vars

\* the write of 0x00000086 to the enabled producer at 0x85 was rejected
C11_Witness ==
    /\ last.op = "OD_write_1014"
    /\ last.v = [bit31 |-> FALSE, reserved |-> 0,
                 canId |-> CO_CAN_ID_EMERGENCY + 6]
    /\ last.returnCode = "ODR_INVALID_VALUE"
    /\ em.producerEnabled
    /\ em.CANtxBuff.ident = CO_CAN_ID_EMERGENCY + 5

\* C12 as stated: a write of OD 0x1014 that is not rejected sets
\* producerEnabled to (bit 31 clear and CAN-ID # 0), makes the effective
\* producer CAN-ID (what OD_read_1014 reports) the CAN-ID of the written
\* word, stores the bare 0x80 for 0x80 + nodeId, and, when it enables the
\* producer, configures the transmit buffer for that CAN-ID.
C12_AsStated ==
    (last.op = "OD_write_1014" /\ last.returnCode = "ODR_OK") =>
        /\ em.producerEnabled = (~last.v.bit31 /\ last.v.canId # 0)
        /\ OD_read_1014(em).canId = last.v.canId
        /\ em.producerCanId =
              IF last.v.canId = CO_CAN_ID_EMERGENCY + em.nodeId
              THEN CO_CAN_ID_EMERGENCY ELSE last.v.canId
        /\ em.producerEnabled => em.CANtxBuff.ident = last.v.canId

(***************************************************************************)
(* Claims about OD 0x1003 (SpecHist).                                      *)
(***************************************************************************)
\* what a read of OD 0x1003 returns according to the claim
HistoryRead(subIndex) ==
    IF subIndex = 0
    THEN /\ last.returnCode = "ODR_OK"
         /\ last.value = <<em.fifoCount>>
    ELSE IF subIndex <= em.fifoCount
    THEN /\ last.returnCode = "ODR_OK"
         /\ last.value = <<em.fifo[(em.fifoWrPtr - subIndex + FifoSize) % FifoSize][1]>>
         /\ Len(hist.log) >= subIndex
         /\ Strip(<<last.value[1], U32zero>>)[1]
                = hist.log[Len(hist.log) - subIndex + 1][1]
    ELSE last.returnCode = "ODR_NO_DATA"

C14_HistoryClear ==
    [][(last'.op = "OD_write_1003" /\ last'.subIndex = 0 /\ last'.count = 1)
       => IF last'.value = 0
          THEN /\ last'.returnCode = "ODR_OK"
               /\ em' = [em EXCEPT !.fifoCount = 0]
          ELSE /\ last'.returnCode = "ODR_INVALID_VALUE"
               /\ em' = em]_vars

\* a write of 1 was refused with two entries in the history
C14_Witness ==
    /\ last.op = "OD_write_1003" /\ last.subIndex = 0 /\ last.count = 1
    /\ last.value = 1
    /\ last.returnCode = "ODR_INVALID_VALUE"
    /\ em.fifoCount = 2

(***************************************************************************)
(* Claims about OD_find() (SpecFind).                                      *)
(***************************************************************************)
\* C19: on a list with strictly increasing indexes, of any size from 0 to
\* MaxCatalog, OD_find(i) ends after at most as many passes of its loop as
\* the list has entries and returns the entry whose index is i if there is
\* one, and NULL otherwise.
C19_Find ==
    (last.op = "OD_find" /\ ~last.odNull) =>
        /\ last.passes <= Len(od.list)
        /\ IF \E p \in 1..Len(od.list) : od.list[p].index = last.index
           THEN last.found /\ od.list[last.at + 1].index = last.index
           ELSE ~last.found

\* the second entry of a list of two entries was found
C19_Witness ==
    /\ last.op = "OD_find" /\ ~last.odNull
    /\ Len(od.list) = 2
    /\ last.found
    /\ last.at = 1

(***************************************************************************)
(* Claims about OD_getSub() (SpecSub).                                     *)
(***************************************************************************)
\* the entry of the last OD_getSub call has no sub-entry with the sub-index
NoSuchSub ==
    LET e == od.list[last.at]
        t == e.odObjectType.type
    IN  \/ t = "ODT_VAR" /\ last.subIndex # 0
        \/ t = "ODT_ARR" /\ last.subIndex >= e.subEntriesCount
        \/ t = "ODT_REC" /\ \A i \in 1..e.subEntriesCount : e.odObject[1][i].subIndex # last.subIndex

\* the stream of the last OD_getSub call is bound to the addressed variable;
\* nullArray tells whether an array without data gives a NULL pointer
BoundToCell(nullArray) ==
    LET e   == od.list[last.at]
        t   == e.odObjectType.type
        obj == e.odObject[1]
        st  == od.io.stream
    IN  /\ t = "ODT_VAR" => st.data = obj.data /\ st.dataLength = obj.dataLength
        /\ (t = "ODT_ARR" /\ last.subIndex = 0) =>
               st.data = obj.base.data /\ st.dataLength = 1
        /\ (t = "ODT_ARR" /\ last.subIndex >= 1) =>
               /\ st.dataLength = obj.dataElementLength
               /\ st.data = IF nullArray /\ obj.data = 0 THEN 0
                            ELSE obj.data + (last.subIndex - 1) * obj.dataElementSizeof
        /\ t = "ODT_REC" =>
               \E i \in 1..e.subEntriesCount :
                   /\ obj[i].subIndex = last.subIndex
                   /\ st.data = obj[i].base.data
                   /\ st.dataLength = obj[i].base.dataLength

\* C20 as stated: OD_getSub fails with ODR_IDX_NOT_EXIST for a NULL entry or
\* object, with ODR_DEV_INCOMPAT for an entry tagged extended without
\* extension, with ODR_SUB_NOT_EXIST for a sub-index the entry does not have,
\* and in every other case succeeds with the stream bound to the addressed
\* variable, an array element k >= 1 at (k - 1) * dataElementSizeof.
C20_AsStated ==
    last.op = "OD_getSub" =>
        IF last.at = 0 \/ od.list[last.at].odObject = <<>>
        THEN last.returnCode = "ODR_IDX_NOT_EXIST"
        ELSE IF od.list[last.at].odObjectType.ext /\ OdvOf(od.list[last.at]).ext = <<>>
        THEN last.returnCode = "ODR_DEV_INCOMPAT"
        ELSE IF NoSuchSub
        THEN last.returnCode = "ODR_SUB_NOT_EXIST"
        ELSE last.returnCode = "ODR_OK" /\ BoundToCell(FALSE)

\* C20: OD_getSub fails with ODR_IDX_NOT_EXIST for a NULL entry or object;
\* otherwise with ODR_DEV_INCOMPAT for a NULL io or an entry tagged extended
\* without extension; otherwise with ODR_SUB_NOT_EXIST for a sub-index the
\* entry does not have; otherwise with ODR_DEV_INCOMPAT for an object type
\* that is none of variable, array and record; in every other case it
\* succeeds with the stream bound to the addressed variable, where an element
\* k >= 1 of an array is at (k - 1) * dataElementSizeof of the array data, or
\* NULL if the array has no data.
C20_GetSub ==
    last.op = "OD_getSub" =>
        IF last.at = 0 \/ od.list[last.at].odObject = <<>>
        THEN last.returnCode = "ODR_IDX_NOT_EXIST"
        ELSE IF last.ioNull
        THEN last.returnCode = "ODR_DEV_INCOMPAT"
        ELSE IF od.list[last.at].odObjectType.ext /\ OdvOf(od.list[last.at]).ext = <<>>
        THEN last.returnCode = "ODR_DEV_INCOMPAT"
        ELSE IF NoSuchSub
        THEN last.returnCode = "ODR_SUB_NOT_EXIST"
        ELSE IF od.list[last.at].odObjectType.type \notin {"ODT_VAR", "ODT_ARR", "ODT_REC"}
        THEN last.returnCode = "ODR_DEV_INCOMPAT"
        ELSE last.returnCode = "ODR_OK" /\ BoundToCell(TRUE)

\* the second element of the array with data was resolved
C20_Witness ==
    /\ last.op = "OD_getSub"
    /\ last.returnCode = "ODR_OK"
    /\ last.at = 2 /\ last.subIndex = 2
    /\ od.io.stream.data = 8 /\ od.io.stream.dataLength = 2

(***************************************************************************)
(* Claims about the default read and write functions (SpecStream).         *)
(***************************************************************************)
\* the bytes of the variable the stream is bound to
CellOf(o) == MemRead(o.mem, o.io.stream.data, o.io.stream.dataLength)

\* C15: reads made with one buffer size c >= 1 on a stream just resolved by
\* OD_getSub for a variable of L >= 1 bytes return ODR_PARTIAL on each call
\* before the ceil(L/c)-th and ODR_OK on that one; the bytes returned so far
\* are the first bytes of the variable, in order; with ODR_OK they are the
\* whole variable, once, and dataOffset is 0 again.
C15_Read ==
    (xfer.kind = "read" /\ last.op = "OD_readOriginal") =>
        LET L == od.io.stream.dataLength
            c == xfer.c
            N == (L + c - 1) \div c
        IN  /\ L >= 1 /\ c >= 1
            /\ xfer.calls <= N
            /\ xfer.calls < N => last.returnCode = "ODR_PARTIAL" /\ ~xfer.done
            /\ xfer.calls = N => last.returnCode = "ODR_OK" /\ xfer.done
            /\ xfer.acc = SubSeq(CellOf(od), 1, IF xfer.calls * c < L THEN xfer.calls * c ELSE L)
            /\ xfer.done => xfer.acc = CellOf(od) /\ od.io.stream.dataOffset = 0

\* a variable of three bytes was read in three calls of one byte
C15_Witness ==
    /\ xfer.kind = "read" /\ last.op = "OD_readOriginal"
    /\ od.io.stream.dataLength = 3
    /\ xfer.c = 1 /\ xfer.calls = 3
    /\ last.returnCode = "ODR_OK"

\* C16: a call of OD_writeOriginal with count bytes on a stream with
\* remaining = dataLength - dataOffset bytes to go fails with ODR_DATA_LONG,
\* writes nothing and returns 0 if count > remaining; writes the bytes at
\* dataOffset, advances dataOffset by count and returns ODR_PARTIAL if
\* count < remaining; writes them, resets dataOffset to 0 and returns ODR_OK
\* if count = remaining.  When writes made since OD_getSub end with ODR_OK,
\* the variable holds the bytes written, concatenated in order.
C16_Write ==
    [][last'.op = "OD_writeOriginal" =>
        LET st        == od.io.stream
            remaining == st.dataLength - st.dataOffset
            count     == last'.count
            written   == MemWrite(od.mem, st.data + st.dataOffset, last'.bytes)
        IN  /\ count > remaining =>
                /\ last'.returnCode = "ODR_DATA_LONG"
                /\ last'.n = 0
                /\ od'.mem = od.mem
            /\ count < remaining =>
                /\ last'.returnCode = "ODR_PARTIAL"
                /\ last'.n = count
                /\ od'.mem = written
                /\ od'.io.stream.dataOffset = st.dataOffset + count
            /\ count = remaining =>
                /\ last'.returnCode = "ODR_OK"
                /\ last'.n = count
                /\ od'.mem = written
                /\ od'.io.stream.dataOffset = 0
            /\ (xfer'.kind = "write" /\ xfer'.done) =>
                /\ Len(xfer'.acc) = st.dataLength
                /\ CellOf(od') = xfer'.acc]_vars

\* a variable of three bytes was written in three calls of one byte
C16_Witness ==
    /\ xfer.kind = "write" /\ xfer.done
    /\ last.op = "OD_writeOriginal"
    /\ last.returnCode = "ODR_OK"
    /\ od.io.stream.dataLength = 3
    /\ last.count = 1 /\ last.at = 2
    /\ CellOf(od) = <<170, 170, 170>>

\* C17: once OD_getSub has succeeded, after any reads and writes with the
\* default functions (of any count, failing ones included) and restarts,
\* dataOffset <= dataLength, and the bytes copied by a read or write lie
\* within the dataLength bytes of the variable.
C17_Range ==
    xfer.kind # "none" =>
        /\ od.io.stream.dataOffset <= od.io.stream.dataLength
        /\ last.op \in {"OD_readOriginal", "OD_writeOriginal"} =>
               /\ 0 <= last.at
               /\ last.at + last.n <= od.io.stream.dataLength

\* a write of too many bytes was refused after a part of the variable was
\* written
C17_Witness ==
    /\ xfer.kind # "none"
    /\ last.op = "OD_writeOriginal"
    /\ last.returnCode = "ODR_DATA_LONG"
    /\ last.at = 2
    /\ od.io.stream.dataLength = 3

\* C18: every successful OD_getSub leaves dataOffset = 0 and binds data and
\* dataLength that do not depend on what the stream held before (a transfer
\* abandoned after partial reads or writes, or anything else), so resolving
\* the same entry and sub-index again gives the same data and dataLength;
\* the first read after it returns bytes from the start of the variable.
C18_Resolve ==
    [][/\ (last'.op = "OD_getSub" /\ last'.returnCode = "ODR_OK") =>
            /\ od'.io.stream.dataOffset = 0
            /\ \A io \in StaleIo \cup {od.io, od'.io} :
                   LET r == OD_getSub(<<od.list[last'.at]>>, last'.subIndex, last'.ioNull, last'.odOrig, io)
                   IN  /\ r.returnCode = "ODR_OK"
                       /\ r.io.stream.data = od'.io.stream.data
                       /\ r.io.stream.dataLength = od'.io.stream.dataLength
       /\ (xfer.kind = "fresh" /\ last'.op = "OD_readOriginal") =>
            /\ last'.at = 0
            /\ last'.n = IF last'.count < od.io.stream.dataLength THEN last'.count
                         ELSE od.io.stream.dataLength
            /\ last'.bytes = SubSeq(CellOf(od), 1, last'.n)]_vars

\* OD_getSub succeeded on a stream left after the first byte of a transfer
C18_Witness ==
    /\ last.op = "OD_getSub"
    /\ last.returnCode = "ODR_OK"
    /\ last.stale = 1
    /\ xfer.kind = "fresh"
    /\ od.io.stream.dataOffset = 0

(***************************************************************************)
(* Claims about entries with an extension (SpecExt).                       *)
(***************************************************************************)
\* C21: a successful OD_getSub with odOrig false on an entry with an
\* extension binds the read and write functions and the object of the
\* extension, and OD_readDisabled / OD_writeDisabled for a function that is
\* NULL; with odOrig true it binds OD_readOriginal, OD_writeOriginal and a
\* NULL object.  Every read and write through an OD_IO_t that was bound with
\* odOrig false on an extended entry OD_extensionIO_init had not been called
\* for returns ODR_UNSUPP_ACCESS, transfers no byte and leaves the memory.
C21_Extension ==
    [][/\ (last'.op = "OD_getSub" /\ last'.returnCode = "ODR_OK") =>
            LET ext == OdvOf(od.list[last'.at]).ext
            IN  /\ (ext # <<>> /\ ~last'.odOrig) =>
                    /\ od'.io.read = IF ext[1].read # "NULL" THEN ext[1].read
                                     ELSE "OD_readDisabled"
                    /\ od'.io.write = IF ext[1].write # "NULL" THEN ext[1].write
                                      ELSE "OD_writeDisabled"
                    /\ od'.io.stream.object = ext[1].object
                /\ last'.odOrig =>
                    /\ od'.io.read = "OD_readOriginal"
                    /\ od'.io.write = "OD_writeOriginal"
                    /\ od'.io.stream.object = "NULL"
       /\ ( /\ last'.op \in {"io.read", "io.write"}
            /\ xfer.bound # <<>>
            /\ OdvOf(od.list[xfer.bound[1].at]).ext # <<>>
            /\ ~xfer.bound[1].odOrig
            /\ ~xfer.bound[1].inited ) =>
            /\ last'.returnCode = "ODR_UNSUPP_ACCESS"
            /\ last'.n = 0
            /\ od'.mem = od.mem]_vars

\* a write was refused on the extended variable before OD_extensionIO_init
C21_Witness ==
    /\ last.op = "io.write"
    /\ last.returnCode = "ODR_UNSUPP_ACCESS"
    /\ xfer.kind = "ext"
    /\ xfer.inited = {}
    /\ xfer.bound # <<>>
    /\ xfer.bound[1].at = 1 /\ ~xfer.bound[1].odOrig

(***************************************************************************)
(* Claims about OD_get_value and OD_set_value (SpecValue).                 *)
(***************************************************************************)
\* C22 as stated: OD_set_value fails as OD_get_value does for the same entry,
\* sub-index, len and odOrig (with what OD_getSub returns, with
\* ODR_DEV_INCOMPAT for a NULL data pointer, with ODR_TYPE_MISMATCH for a
\* dataLength other than len) without calling io.write, and otherwise calls
\* io.write exactly once.
C22_AsStated ==
    last.op = "OD_set_value" =>
        IF last.get.reads = 0
        THEN last.returnCode = last.get.returnCode /\ last.writes = 0
        ELSE last.writes = 1

(***************************************************************************)
(* Claims about OD_getSDOabCode (SpecAbort).                               *)
(***************************************************************************)
\* C23: OD_getSDOabCode gives an abort code of the table for every value:
\* 0x06040047 (general internal incompatibility in the device) for every
\* value below 0, ODR_PARTIAL included, and for every value from ODR_COUNT
\* on, and 0x00000000 for ODR_OK.
C23_Total ==
    last.op = "OD_getSDOabCode" =>
        /\ \E i \in 1..Len(abortCodes) : last.abCode = abortCodes[i]
        /\ (last.returnCode < 0 \/ last.returnCode >= 26) => last.abCode = 100925511
        /\ last.returnCode = ODR_t.ODR_OK => last.abCode = 0

\* the abort code of ODR_PARTIAL was asked for
C23_Witness ==
    /\ last.op = "OD_getSDOabCode"
    /\ last.returnCode = ODR_t.ODR_PARTIAL
    /\ last.abCode = 100925511

\* the SDO abort code the comments of ODR_t give for each return code
DocumentedAbort ==
    [ODR_OK |-> 0, ODR_OUT_OF_MEM |-> 84148229,
     ODR_UNSUPP_ACCESS |-> 100728832, ODR_WRITEONLY |-> 100728833,
     ODR_READONLY |-> 100728834, ODR_IDX_NOT_EXIST |-> 100794368,
     ODR_NO_MAP |-> 100925505, ODR_MAP_LEN |-> 100925506,
     ODR_PAR_INCOMPAT |-> 100925507, ODR_DEV_INCOMPAT |-> 100925511,
     ODR_HW |-> 101056512, ODR_TYPE_MISMATCH |-> 101122064,
     ODR_DATA_LONG |-> 101122066, ODR_DATA_SHORT |-> 101122067,
     ODR_SUB_NOT_EXIST |-> 101253137, ODR_INVALID_VALUE |-> 101253168,
     ODR_VALUE_HIGH |-> 101253169, ODR_VALUE_LOW |-> 101253170,
     ODR_MAX_LESS_MIN |-> 101253174, ODR_NO_RESOURCE |-> 101318691,
     ODR_GENERAL |-> 134217728, ODR_DATA_TRANSF |-> 134217760,
     ODR_DATA_LOC_CTRL |-> 134217761, ODR_DATA_DEV_STATE |-> 134217762,
     ODR_OD_MISSING |-> 134217763, ODR_NO_DATA |-> 134217764]

\* C24 as stated: each return code from ODR_OK to ODR_NO_DATA has the SDO
\* abort code documented for it (0x08000022 for ODR_DATA_DEV_STATE,
\* 0x08000023 for ODR_OD_MISSING, 0x08000024 for ODR_NO_DATA), and two
\* different return codes never have the same abort code.
C24_AsStated ==
    last.op = "OD_getSDOabCode" =>
        /\ \A name \in DOMAIN DocumentedAbort :
               last.returnCode = ODR_t[name] => last.abCode = DocumentedAbort[name]
        /\ \A a, b \in DOMAIN DocumentedAbort :
               (a # b /\ last.returnCode = ODR_t[a]) =>
                   last.abCode # OD_getSDOabCode(ODR_t[b])

(***************************************************************************)
(* Claims about the callback of the consumer (SpecRx).                     *)
(***************************************************************************)
\* C25: with a callback registered by CO_EM_initCallbackRx, a CO_EM_process
\* call that hands a frame to the CAN driver calls the callback exactly once,
\* with ident 0 and with the error code, error register, error bit and info
\* code that bytes 0-1, 2, 3 and 4-7 of the frame encode.
C25_OwnMessage ==
    (last.op = "CO_EM_process" /\ last.sent /\ em.pFunctSignalRx) =>
        /\ Len(last.rx) = 1
        /\ last.rx[1].ident = 0
        /\ em.CANtxBuff.data =
               Le16(last.rx[1].errorCode)
               \o <<last.rx[1].errorRegister, last.rx[1].errorBit>>
               \o Le16(last.rx[1].infoCode[2]) \o Le16(last.rx[1].infoCode[1])

\* the callback was called for the frame 34 12 90 11 03 02 01 00
C25_Witness ==
    /\ last.op = "CO_EM_process" /\ last.sent /\ em.pFunctSignalRx
    /\ Len(last.rx) = 1
    /\ last.rx[1].errorCode = 4660
    /\ last.rx[1].errorRegister = 144
    /\ em.CANtxBuff.data = <<52, 18, 144, 17, 3, 2, 1, 0>>

(***************************************************************************)
(* Claims about the error status of the CAN driver (SpecCan).              *)
(***************************************************************************)
\* the error status bits that follow from the driver status st
BitsOfDriver(st) ==
    {MonitoredConditions[i].errorBit : i \in {j \in 1..Len(MonitoredConditions) : st \cap MonitoredConditions[j].flags # {}}}

MonitoredBits == {MonitoredConditions[i].errorBit : i \in 1..Len(MonitoredConditions)}

RECURSIVE ApplyCalls(_, _)
\* the Emergency object after the CO_error calls of the sequence calls
ApplyCalls(e, calls) ==
    IF calls = <<>> THEN e
    ELSE ApplyCalls(CO_error(e, Head(calls).setError, Head(calls).errorBit, Head(calls).errorCode, U32zero), Tail(calls))

\* C26: for any sequence of CANerrorStatus values seen by successive
\* CO_EM_process calls, CO_error is called only for monitored conditions of
\* which a flag differs from the previous call, with the current state of the
\* condition, and after each call every monitored error status bit is set
\* exactly if its condition holds in the driver (bus warning if TX or RX
\* warning), no other caller changing these bits.
C26_Monitor ==
    [][last'.op = "CO_EM_process" =>
        /\ \A k \in 1..Len(last'.calls) :
               /\ \E f \in last'.calls[k].flags : (f \in last'.st) # (f \in last'.old)
               /\ last'.calls[k].setError = (last'.calls[k].flags \cap last'.st # {})
        /\ CANerrMonitor(em, last'.st) =
               ApplyCalls([em EXCEPT !.CANerrorStatusOld = last'.st], last'.calls)
        /\ em'.errorStatusBits \cap MonitoredBits = BitsOfDriver(last'.st)]_vars

\* both warnings were set, the TX warning went away, and the bus warning bit
\* stays set after a CO_error call that changed nothing
C26_Witness ==
    /\ last.op = "CO_EM_process"
    /\ last.old = {"ERRTX_WARNING", "ERRRX_WARNING"}
    /\ last.st = {"ERRRX_WARNING"}
    /\ Len(last.calls) = 1
    /\ last.calls[1].setError
    /\ CO_EM_CAN_BUS_WARNING \in em.errorStatusBits

(***************************************************************************)
(* Claims about error bits outside of errorStatusBits (SpecWrong).         *)
(***************************************************************************)
\* C27: a CO_error call with an error bit whose byte index is not below
\* CO_CONFIG_EM_ERR_STATUS_BITS_COUNT / 8 changes no bit of errorStatusBits
\* other than CO_EM_WRONG_ERROR_REPORT and sets no bit outside of the bitmap;
\* if it raises that bit and the FIFO has room, the entry it writes carries
\* CO_EMC_SOFTWARE_INTERNAL and the error bit of the call as info code.
C27_WrongBit ==
    [][(last'.op = "CO_error" /\ last'.errorBit \div 8 >= CO_CONFIG_EM_ERR_STATUS_BITS_COUNT \div 8) =>
        /\ (em'.errorStatusBits \ em.errorStatusBits) \cup (em.errorStatusBits \ em'.errorStatusBits)
               \subseteq {CO_EM_WRONG_ERROR_REPORT}
        /\ em'.errorStatusBits \subseteq 0..(CO_CONFIG_EM_ERR_STATUS_BITS_COUNT - 1)
        /\ (last'.setError /\ CO_EM_WRONG_ERROR_REPORT \notin em.errorStatusBits) =>
               /\ CO_EM_WRONG_ERROR_REPORT \in em'.errorStatusBits
               /\ IF fifoWrPtrNext(em.fifoWrPtr) = em.fifoPpPtr
                  THEN NewEntries(em, em') = <<>>
                  ELSE NewEntries(em, em') =
                           << <<U32(last'.errorBit * 256, CO_EMC_SOFTWARE_INTERNAL),
                                U32(0, last'.errorBit)>> >>]_vars

\* error bit 255 was reported and an entry with info code 255 is in the FIFO
C27_Witness ==
    /\ last.op = "CO_error"
    /\ last.errorBit = 255 /\ last.setError /\ last.edge
    /\ CO_EM_WRONG_ERROR_REPORT \in em.errorStatusBits
    /\ pending # <<>>
    /\ pending[Len(pending)] = <<U32(255 * 256, CO_EMC_SOFTWARE_INTERNAL), U32(0, 255)>>

(***************************************************************************)
(* Claims about the error status bits (SpecStatus).                        *)
(***************************************************************************)
\* C28 as stated: errorStatusBits is changed by CO_error only; an SDO read or
\* write of the OD object of the error status bits changes no bit, so a bit
\* is set exactly if the last CO_error call for it was made with setError.
C28_AsStated ==
    [][/\ last'.op \in {"OD_read_statusBits", "OD_write_statusBits"} =>
            em'.errorStatusBits = em.errorStatusBits
       /\ \A b \in ReportBits :
            (b \in em'.errorStatusBits) = (hist'.lastSet[b] = "set")]_vars

(***************************************************************************)
(* Claims about the values of fifoOverflow (Spec).  A CO_error call writes *)
(* fifoOverflow at most once (line 740); a CO_EM_process call leaves it as *)
(* it is up to line 650, where last.overflowSeen is its value, and writes  *)
(* it at most once in lines 650-657.                                       *)
(***************************************************************************)
\* the values fifoOverflow has, one after the other, in the step
OverflowValues ==
    IF last'.op = "CO_EM_process"
    THEN <<em.fifoOverflow, last'.overflowSeen, em'.fifoOverflow>>
    ELSE <<em.fifoOverflow, em'.fifoOverflow>>

OverflowChanges ==
    {<<OverflowValues[i], OverflowValues[i + 1]>> :
        i \in 1..(Len(OverflowValues) - 1)}

\* C30 as stated: fifoOverflow changes only from 0 to 1, from 1 to 2 and
\* from 2 to 0, in every sequence of CO_error and CO_EM_process calls.
C30_AsStated ==
    [][\A c \in OverflowChanges :
           c[1] # c[2] => c \in {<<0, 1>>, <<1, 2>>, <<2, 0>>}]_vars

\* C30: fifoOverflow changes only from 0 to 1, from 1 to 2, from 2 to 0 and,
\* when CO_error finds the FIFO full before the recovery is complete, from 2
\* to 1; CO_error makes the changes to 1 only, CO_EM_process the others.
C30_Changes ==
    [][\A c \in OverflowChanges :
           c[1] # c[2] =>
               /\ c \in {<<0, 1>>, <<1, 2>>, <<2, 0>>, <<2, 1>>}
               /\ (c[2] = 1) = (last'.op = "CO_error")]_vars

\* CO_error found the FIFO full while the error bit "emergency buffer full"
\* was set, that is while fifoOverflow was 2
C30_Witness ==
    /\ last.op = "CO_error" /\ last.edge /\ last.before = CAP
    /\ em.fifoOverflow = 1
    /\ CO_EM_EMERGENCY_BUFFER_FULL \in em.errorStatusBits

(***************************************************************************)
(* Claims about the lock (SpecLock).                                       *)
(***************************************************************************)
\* C29 as stated: every assignment to fifoOverflow and to fifoCount is made
\* between CO_LOCK_EMCY() and CO_UNLOCK_EMCY(), so that no CO_error call of an
\* interrupt runs between the task's test of fifoOverflow and its assignment:
\* the task assigns fifoOverflow while it still has the value the test saw.
C29_AsStated ==
    [][/\ (em'.fifoOverflow # em.fifoOverflow \/ em'.fifoCount # em.fifoCount)
            => last'.lock
       /\ last'.op = "fifoOverflow" => last'.found = last'.seen]_vars

(***************************************************************************)
(* Claims about the drain (SpecSeq).                                       *)
(***************************************************************************)
\* C31 as stated: a CO_EM_process call that advances fifoPpPtr has copied the
\* entry it popped into CANtxBuff->data and has called CO_CANsend(); no entry
\* is consumed while NMT is neither pre-operational nor operational.
C31_AsStated ==
    [][(last'.op = "CO_EM_process" /\ em'.fifoPpPtr # em.fifoPpPtr) =>
           /\ last'.sent /\ last'.nmt
           /\ em'.CANtxBuff.data = Bytes32(em'.fifo[em.fifoPpPtr][1])
                                   \o Bytes32(em'.fifo[em.fifoPpPtr][2])]_vars

(***************************************************************************)
(* Claims about the inhibit timer (SpecInhibit).                           *)
(***************************************************************************)
\* C32 as stated: inhibitEmTimer saturates at inhibitEmTime_us: after every
\* CO_EM_process call inhibitEmTimer <= inhibitEmTime_us, and the addition of
\* timeDifference_us never wraps around 2^32 (the timer the call leaves is
\* 0 after a transmit request and is not below the timer it found otherwise).
C32_AsStated ==
    [][last'.op = "CO_EM_process" =>
           /\ ~Lt32(em'.inhibitEmTime_us, em'.inhibitEmTimer)
           /\ ~last'.popped => ~Lt32(em'.inhibitEmTimer, em.inhibitEmTimer)]_vars

(***************************************************************************)
(* Claims about the error codes of the driver conditions (SpecCan).        *)
(***************************************************************************)
\* the emergency error codes (CO_EM_errorCode_t) that the module uses
StandardCodes ==
    {CO_EMC_NO_ERROR, CO_EMC_GENERIC, CO_EMC_SOFTWARE_INTERNAL,
     CO_EMC_COMMUNICATION, CO_EMC_CAN_OVERRUN, CO_EMC_CAN_PASSIVE,
     CO_EMC_BUS_OFF_RECOVERED}

\* C40 as stated: the error code CO_EM_process passes to CO_error when a
\* monitored condition of the driver asserts is an emergency error code, not
\* the number of an error status bit; a receive overflow is reported with the
\* code of a transmit overflow, CO_EMC_CAN_OVERRUN.
C40_AsStated ==
    last.op = "CO_EM_process" =>
        \A i \in DOMAIN last.calls :
            last.calls[i].setError =>
                /\ last.calls[i].errorCode \in StandardCodes
                /\ last.calls[i].errorBit \in {CO_EM_CAN_RXB_OVERFLOW, CO_EM_CAN_TX_OVERFLOW}
                       => last.calls[i].errorCode = CO_EMC_CAN_OVERRUN

(***************************************************************************)
(* Claims about the FIFO and OD 0x1003 (SpecHist).                         *)
(***************************************************************************)
\* C33: after any sequence of CO_error calls, CO_EM_process calls and reads
\* and writes of OD 0x1003, fifoWrPtr and fifoPpPtr are in 0..CAP, the number
\* of pending entries (fifoWrPtr - fifoPpPtr) mod (CAP + 1) is at most CAP,
\* fifoCount is at most CAP and fifoOverflow is 0, 1 or 2.
C33_FifoRanges ==
    /\ em.fifoWrPtr \in 0..CAP
    /\ em.fifoPpPtr \in 0..CAP
    /\ (em.fifoWrPtr - em.fifoPpPtr + CAP + 1) % (CAP + 1) \in 0..CAP
    /\ em.fifoCount \in 0..CAP
    /\ em.fifoOverflow \in {0, 1, 2}
    /\ DOMAIN em.fifo = 0..CAP

\* the FIFO is full with fifoWrPtr wrapped behind fifoPpPtr, fifoCount has
\* reached CAP and the overflow was annotated
C33_Witness ==
    /\ em.fifoWrPtr < em.fifoPpPtr
    /\ (em.fifoWrPtr - em.fifoPpPtr + CAP + 1) % (CAP + 1) = CAP
    /\ em.fifoCount = CAP
    /\ em.fifoOverflow = 2

(***************************************************************************)
(* Claims about the preempted drain (SpecPreempt).                         *)
(***************************************************************************)
\* C34: a CO_error call of an interrupt, at any point of the drain, changes
\* no slot of em->fifo that holds a pending entry, and the 8 bytes handed to
\* CO_CANsend() are those of the oldest pending entry with the error
\* register added, never a mix of two entries.
C34_NoTear ==
    [][/\ last'.op = "CO_error" =>
            \A i \in PendingSlots : em'.fifo[i] = em.fifo[i]
       /\ last'.op = "CO_CANsend" =>
            em'.CANtxBuff.data =
                Bytes32(U32(BitOr(last'.entry[1][1], last'.reg), last'.entry[1][2]))
                \o Bytes32(last'.entry[2])]_vars

\* the interrupt has enqueued an entry between the two halves of the memcpy,
\* behind the entry that is being copied
C34_Witness ==
    /\ last.op = "CO_error" /\ last.pc = "copied"
    /\ task.pc = "copied"
    /\ Len(pending) = 2
    /\ em.fifo[task.pp] # em.fifo[fifoPpPtrNext(task.pp)]

C36_OnePop ==
    [][last'.op = "CO_EM_process" =>
           /\ (em'.fifoPpPtr - em.fifoPpPtr + CAP + 1) % (CAP + 1)
                  = IF last'.popped THEN 1 ELSE 0
           /\ last'.sent => last'.popped
           /\ Pending(em') >= Pending(em) - 1
           /\ Len(pending') >= Len(pending) - 1]_vars

\* a call made with inhibit time 0 and two entries pending has popped one of
\* them and left the other
C36_Witness ==
    /\ last.op = "CO_EM_process" /\ last.popped /\ last.sent
    /\ last.new = <<>>
    /\ em.inhibitEmTime_us = U32zero
    /\ CAP = 2
    /\ Pending(em) = 1

(***************************************************************************)
(* Claims about the CAN-ID of the transmit buffer (SpecCobId).             *)
(***************************************************************************)
\* C37 as stated: after CO_EM_init and any sequence of accepted and rejected
\* writes of OD 0x1014, whenever the producer is enabled the CAN-ID with which
\* CANtxBuff was last configured is the CAN-ID that a read of OD 0x1014
\* returns in bits 10..0 (0x80 + nodeId when the bare 0x80 is stored).
C37_AsStated ==
    em.producerEnabled => em.CANtxBuff.ident = OD_read_1014(em).canId

(***************************************************************************)
(* Claims about the clearing of the history (SpecHist).                    *)
(***************************************************************************)
\* what a CO_EM_process call made on e hands to the CAN driver and leaves in
\* the object, fifoCount aside
DrainOf(e) ==
    LET r == CO_EM_process(e, TRUE, U32zero, {}, {"GENERIC"}, FALSE)
    IN  [popped |-> r.popped, sent |-> r.sent, rx |-> r.rx,
         em |-> [r.em EXCEPT !.fifoCount = 0]]

\* C38: an accepted write of 0 to OD 0x1003 sub-index 0 changes fifoCount
\* only: fifoWrPtr, fifoPpPtr, fifoOverflow, errorStatusBits and every slot
\* of the FIFO are as before, the entries pending are the same, and the next
\* CO_EM_process call sends what it had sent without the write.
C38_ClearKeepsPending ==
    [][(last'.op = "OD_write_1003" /\ last'.returnCode = "ODR_OK") =>
           /\ em'.fifoCount = 0
           /\ [em' EXCEPT !.fifoCount = em.fifoCount] = em
           /\ pending' = pending
           /\ pending' = [i \in 1..Pending(em') |->
                            Strip(em'.fifo[(em'.fifoPpPtr + i - 1) % FifoSize])]
           /\ DrainOf(em') = DrainOf(em)]_vars

\* the history was cleared with an entry pending after an overflow
C38_Witness ==
    /\ last.op = "OD_write_1003" /\ last.returnCode = "ODR_OK"
    /\ em.fifoCount = 0
    /\ Pending(em) >= 1
    /\ em.fifoOverflow # 0
    /\ DrainOf(em).sent

(***************************************************************************)
(* Claims about refused writes (SpecStream).                               *)
(***************************************************************************)
\* C39 as stated: an OD_writeOriginal call that fails with ODR_DATA_LONG
\* leaves the bytes of the variable and stream->dataOffset as they were, for
\* every dataOffset that earlier partial writes have reached.
C39_AsStated ==
    [][(last'.op = "OD_writeOriginal" /\ last'.returnCode = "ODR_DATA_LONG") =>
           /\ od'.mem = od.mem
           /\ od'.io.stream.dataOffset = od.io.stream.dataOffset]_vars

====
